---- MODULE Spec2Model ----
(***************************************************************************)
(* varMT: ingestion of VCF records into the PostgreSQL schema, and the     *)
(* search layer over it.                                                   *)
(*                                                                         *)
(* The model has these specifications:                                     *)
(*   Spec        process_data (src/src/vcf2db.py), statement by statement, *)
(*               on one psycopg2 connection;                               *)
(*   SpecUpsert  the statements of src/src/utils/db_utils.py executed on   *)
(*               one connection in any order the data flow allows, each    *)
(*               bound to as many values as it has placeholders;           *)
(*   SpecRuns    two invocations of process_data, each on its connection;  *)
(*   SpecQuery   the queries of src/src/queries/variant_queries.py;        *)
(*   SpecFold    one file ingested in two record orders;                   *)
(*   SpecCsq     the extractors of src/src/utils/vep_utils.py;             *)
(*   SpecPage    the CSV validator (src/src/utils/csv_parser.py) and the   *)
(*               search handler of src/src/pages/1_Advanced_Search.py;     *)
(*   SpecSetup   create_database and create_tables on one server;          *)
(*   SpecMain    main and setup_args (vcf2db.py, vcf2db_cli.py).           *)
(* The store is PostgreSQL as psycopg2 shows it: `committed` is the        *)
(* database, `working` the connection's view inside its open transaction,  *)
(* `seq` the SERIAL sequences, which no rollback restores.                 *)
(***************************************************************************)
EXTENDS Integers, Sequences, FiniteSets, TLC

VARIABLES
    committed,            \* the database: what every new connection sees
    working,              \* conn's view: committed plus its open transaction
    seq,                  \* last value of each table's SERIAL sequence
    pc,                   \* position of process_data
    runs,                 \* calls of process_data so far
    vcf_files,            \* vcf2db.py:25-27, the files still to process
    vcf,                  \* records of the file being processed (pysam.VariantFile)
    pos,                  \* index in vcf of the record being processed (0: none yet)
    processed,            \* vcf2db.py:42
    collection_id,        \* vcf2db.py:40 (0: unset)
    var_location_id,      \* vcf2db.py:49 (0: unset)
    variant_id,           \* vcf2db.py:66 (0: unset)
    i,                    \* vcf2db.py:62, 1-based here
    error,                \* the exception process_data re-raised, or None
    last_commit,          \* history: the store as of the last conn.commit()
    committed_processed,  \* history: `processed` as of the last commit of this file
    file_start,           \* history: the database when the file was opened
    inflight,             \* history: rows written by a record that has not completed
    returned,             \* history: ids the upserts returned, live and as committed
    last,                 \* history: the last statement SpecUpsert executed
    opened,               \* history: the files this run opened, with their collections
    run,                  \* SpecRuns: the two invocations of process_data
    result,               \* what the last query of the query layer returned
    csq,                  \* the last call of the extractors of vep_utils.py
    fold,                 \* SpecFold: a file ingested in two record orders
    page,                 \* SpecPage: one session of pages/1_Advanced_Search.py
    cli,                  \* SpecMain: one invocation of vcf2db.py
    server                \* SpecSetup: the databases of the PostgreSQL server

vars ==
    <<committed, working, seq, pc, runs, vcf_files, vcf, pos, processed,
      collection_id, var_location_id, variant_id, i, error, last_commit,
      committed_processed, file_start, inflight, returned, last, opened,
      run, result, csq, fold, page, cli, server>>

\* what the other specifications keep
aside == <<run, result, csq, fold, page, cli, server>>

None == "None"

(***************************************************************************)
(* Bounds of the model.                                                    *)
(***************************************************************************)
MaxRuns == 1
MaxFiles == 2
MaxRecords == 2
\* SpecUpsert: the statements one behaviour executes
MaxStatements == 5
\* vcf2db.py:77 commits every 10,000 records; the model scales the batch down.
BatchSize == 2
\* SpecCsq: the entries of a CSQ payload
MaxEntries == 2
\* SpecPage: the rows of an uploaded CSV file
MaxRows == 2
\* SpecSetup: the commits into one database
MaxStored == 2

(***************************************************************************)
(* Inputs.                                                                 *)
(***************************************************************************)
Paths == 1..MaxFiles               \* a path is its rank in lexicographic order
Chromosomes == {"1"}
Positions == {100, 200}            \* positions the statements are given
FilePositions == {100}             \* record.pos of the records of a file
References == {"A"}
Genome == "GRCh38"                 \* ref_genome, vcf2db_cli.py:22
Alts == {<<"C">>, <<"C", "G">>}     \* record.alts, one allele or more
RsIds == {None, "rs1"}             \* record.id
GeneIds == {None, "ENSG1", "ENSG2"} \* record.info SNPEFF_GENE_NAME; ENSG2 is unmapped
AlleleNumbers == {10}              \* record.info AN
SampleCounts == {1}                \* len(vcf.header.samples)
\* record.info['AC'] as vcf2db.py:69 tells it apart: a scalar (is_list FALSE,
\* one value) or a list.
AlleleCounts ==
    { [is_list |-> FALSE, values |-> <<3>>],
      [is_list |-> TRUE, values |-> <<5>>],
      [is_list |-> TRUE, values |-> <<5, 3>>] }

\* the entries a CSQ payload (record.info CSQ) is made of, each the sequence of
\* its characters: "", "B", "B|rs1|T", "B|c&rs1",
\* "||T", "B|c", "rs1||" and "B|c;rs1&rs2"
Annotations ==
    { <<>>,
      <<"B", "|", "c", ";", "r", "s", "1", "&", "r", "s", "2">>,
      <<"B">>,
      <<"B", "|", "r", "s", "1", "|", "T">>,
      <<"B", "|", "c", "&", "r", "s", "1">>,
      <<"|", "|", "T">>,
      <<"B", "|", "c">>,
      <<"r", "s", "1", "|", "|">> }

\* the payload of an annotated record, two transcripts
RecordPayloads ==
    { <<>>,
      << <<"B", "|", "r", "s", "1", "|", "T">>, <<"B", "|", "c", "&", "r", "s", "1">> >> }

\* A record as pysam yields it; a record carries an id and a gene, or neither,
\* the records of the unmapped gene have one allele and a scalar count, and
\* the records of the mapped gene carry the annotation payload.
Records ==
    {r \in [chrom : Chromosomes, pos : FilePositions, ref : References, alts : Alts,
            id : RsIds, gene : GeneIds, ac : AlleleCounts, an : AlleleNumbers,
            csq : RecordPayloads] :
        /\ (r.id = None) <=> (r.gene = None)
        /\ r.gene = "ENSG2" => (Len(r.alts) = 1 /\ ~r.ac.is_list)
        /\ (r.csq # <<>>) <=> (r.gene = "ENSG1")}

RECURSIVE SeqsUpTo(_, _)
SeqsUpTo(S, n) ==
    IF n = 0 THEN {<<>>}
    ELSE LET shorter == SeqsUpTo(S, n - 1)
         IN shorter \cup {Append(s, x) : s \in {t \in shorter : Len(t) = n - 1}, x \in S}

Files == SeqsUpTo(Records, MaxRecords)

\* res/ensembl_gene_mapping.tsv as load_gene_mapping returns it
gene_mapping == [g \in {"ENSG1", "ENSG3"} |-> IF g = "ENSG1" THEN "BRCA1" ELSE "TP53"]

(***************************************************************************)
(* The schema and the statements of db_utils.py.                           *)
(***************************************************************************)
Tables ==
    {"variant_locations", "variants", "collections", "variant_frequencies",
     "genes", "gene_locations"}

create_tables == [t \in Tables |-> {}]

\* the number of %s placeholders of each statement
insert_variant_placeholders == 3
insert_variant_location_placeholders == 4
insert_collection_placeholders == 1
insert_variant_frequency_placeholders == 3
insert_gene_placeholders == 1
insert_gene_location_placeholders == 2

\* cursor.execute(query, params): psycopg2 formats the query with the tuple and
\* raises TypeError ("not all arguments converted") unless each value meets a
\* placeholder; nothing reaches the server then.
Binds(placeholders, params) == Len(params) = placeholders

nextval(sq, t) == [sq EXCEPT ![t] = @ + 1]

\* A statement's result: the connection's view, the sequences, the id of
\* RETURNING id (0 where the statement returns none).
Result(db, sq, id) == [db |-> db, seq |-> sq, id |-> id]

\* C1's mutant: the INSERT without the UNIQUE constraint and ON CONFLICT.
insert_variant_location_plain(db, sq, params) ==
    LET s == nextval(sq, "variant_locations")
        row == [id |-> s.variant_locations, chromosome |-> params[1],
                position |-> params[2], reference_allele |-> params[3],
                genome_version |-> params[4]]
    IN Result([db EXCEPT !.variant_locations = @ \cup {row}], s, row.id)

insert_variant_location(db, sq, params) ==
    LET s == nextval(sq, "variant_locations")
        row == [id |-> s.variant_locations, chromosome |-> params[1],
                position |-> params[2], reference_allele |-> params[3],
                genome_version |-> params[4]]
        conflict == {r \in db.variant_locations :
                        /\ r.chromosome = row.chromosome
                        /\ r.position = row.position
                        /\ r.reference_allele = row.reference_allele
                        /\ r.genome_version = row.genome_version}
    IN IF conflict = {}
       THEN Result([db EXCEPT !.variant_locations = @ \cup {row}], s, row.id)
       ELSE Result(db, s, (CHOOSE r \in conflict : TRUE).id)

\* C2's mutant: the INSERT without the UNIQUE constraint and ON CONFLICT.
insert_variant_plain(db, sq, params) ==
    LET s == nextval(sq, "variants")
        row == [id |-> s.variants, variant_location_id |-> params[1],
                rs_id |-> params[2], alternate_allele |-> params[3]]
    IN Result([db EXCEPT !.variants = @ \cup {row}], s, row.id)

\* C27's mutant: DO UPDATE SET rs_id = EXCLUDED.rs_id, the stored id overwritten.
insert_variant_update_rs_id(db, sq, params) ==
    LET s == nextval(sq, "variants")
        row == [id |-> s.variants, variant_location_id |-> params[1],
                rs_id |-> params[2], alternate_allele |-> params[3]]
        conflict == {r \in db.variants :
                        /\ r.variant_location_id = row.variant_location_id
                        /\ r.alternate_allele = row.alternate_allele}
    IN IF conflict = {}
       THEN Result([db EXCEPT !.variants = @ \cup {row}], s, row.id)
       ELSE Result([db EXCEPT !.variants =
                       (@ \ conflict) \cup {[r EXCEPT !.rs_id = row.rs_id] : r \in conflict}],
                   s, (CHOOSE r \in conflict : TRUE).id)

insert_variant(db, sq, params) ==
    LET s == nextval(sq, "variants")
        row == [id |-> s.variants, variant_location_id |-> params[1],
                rs_id |-> params[2], alternate_allele |-> params[3]]
        conflict == {r \in db.variants :
                        /\ r.variant_location_id = row.variant_location_id
                        /\ r.alternate_allele = row.alternate_allele}
    IN IF conflict = {}
       THEN Result([db EXCEPT !.variants = @ \cup {row}], s, row.id)
       ELSE Result(db, s, (CHOOSE r \in conflict : TRUE).id)

\* C11's mutant: collections keyed by sample_count, the statement returning the
\* row a file of as many samples made.
insert_collection_by_sample_count(db, sq, params) ==
    LET s == nextval(sq, "collections")
        row == [id |-> s.collections, sample_count |-> params[1]]
        conflict == {r \in db.collections : r.sample_count = row.sample_count}
    IN IF conflict = {}
       THEN Result([db EXCEPT !.collections = @ \cup {row}], s, row.id)
       ELSE Result(db, s, (CHOOSE r \in conflict : TRUE).id)

insert_collection(db, sq, params) ==
    LET s == nextval(sq, "collections")
        row == [id |-> s.collections, sample_count |-> params[1]]
    IN Result([db EXCEPT !.collections = @ \cup {row}], s, row.id)

\* C5's mutant: the statement and table of utils/dbutils.py, a plain INSERT
\* into a table without UNIQUE (variant_id, collection_id).
insert_variant_frequency_plain(db, sq, params) ==
    LET s == nextval(sq, "variant_frequencies")
        row == [id |-> s.variant_frequencies, variant_id |-> params[1],
                collection_id |-> params[2], alternate_allele_count |-> params[3]]
    IN Result([db EXCEPT !.variant_frequencies = @ \cup {row}], s, 0)

\* C18's mutant: DO UPDATE SET alternate_allele_count = EXCLUDED.
\* alternate_allele_count, the stored count overwritten.
insert_variant_frequency_overwrite(db, sq, params) ==
    LET s == nextval(sq, "variant_frequencies")
        row == [id |-> s.variant_frequencies, variant_id |-> params[1],
                collection_id |-> params[2], alternate_allele_count |-> params[3]]
        conflict == {r \in db.variant_frequencies :
                        /\ r.variant_id = row.variant_id
                        /\ r.collection_id = row.collection_id}
        replaced == {[r EXCEPT !.alternate_allele_count = row.alternate_allele_count] :
                        r \in conflict}
    IN IF conflict = {}
       THEN Result([db EXCEPT !.variant_frequencies = @ \cup {row}], s, 0)
       ELSE Result([db EXCEPT !.variant_frequencies = (@ \ conflict) \cup replaced], s, 0)

insert_variant_frequency(db, sq, params) ==
    LET s == nextval(sq, "variant_frequencies")
        row == [id |-> s.variant_frequencies, variant_id |-> params[1],
                collection_id |-> params[2], alternate_allele_count |-> params[3]]
        conflict == {r \in db.variant_frequencies :
                        /\ r.variant_id = row.variant_id
                        /\ r.collection_id = row.collection_id}
        folded == {[r EXCEPT !.alternate_allele_count = @ + row.alternate_allele_count] :
                        r \in conflict}
    IN IF conflict = {}
       THEN Result([db EXCEPT !.variant_frequencies = @ \cup {row}], s, 0)
       ELSE Result([db EXCEPT !.variant_frequencies = (@ \ conflict) \cup folded], s, 0)

insert_gene(db, sq, params) ==
    LET s == nextval(sq, "genes")
        row == [id |-> s.genes, symbol |-> params[1]]
        conflict == {r \in db.genes : r.symbol = row.symbol}
    IN IF conflict = {}
       THEN Result([db EXCEPT !.genes = @ \cup {row}], s, row.id)
       ELSE Result(db, s, (CHOOSE r \in conflict : TRUE).id)

\* C14's mutant: the INSERT without the UNIQUE constraint and ON CONFLICT.
insert_gene_location_plain(db, sq, params) ==
    LET s == nextval(sq, "gene_locations")
        row == [id |-> s.gene_locations, gene_id |-> params[1],
                variant_location_id |-> params[2]]
    IN Result([db EXCEPT !.gene_locations = @ \cup {row}], s, 0)

insert_gene_location(db, sq, params) ==
    LET s == nextval(sq, "gene_locations")
        row == [id |-> s.gene_locations, gene_id |-> params[1],
                variant_location_id |-> params[2]]
        conflict == {r \in db.gene_locations :
                        /\ r.gene_id = row.gene_id
                        /\ r.variant_location_id = row.variant_location_id}
    IN IF conflict = {}
       THEN Result([db EXCEPT !.gene_locations = @ \cup {row}], s, 0)
       ELSE Result(db, s, 0)

map_gene_symbols(ensembl_gene_id, mapping) ==
    IF ensembl_gene_id \in DOMAIN mapping THEN <<mapping[ensembl_gene_id]>> ELSE <<>>

(***************************************************************************)
(* The connection (psycopg2.connect, vcf2db.py:19).                        *)
(***************************************************************************)
\* C7's mutant: a connection in autocommit mode, as create_database sets it
\* (db_utils.py:29): every statement is committed as soon as it has run.
AfterStatementAutocommit(db, view) == view

\* The database after a statement has run on conn, whose view is then `view`:
\* conn is not in autocommit mode, so the database is as before.
AfterStatement(db, view) == db

\* C10's mutant: the handler commits the open transaction.
OnExceptionCommit(db, view) == view

\* vcf2db.py:85-92: the database after conn.rollback(), the re-raise and
\* conn.close(); the open transaction is discarded.
OnException(db, view) == db

\* C12's mutant: glob.glob's own order, which the file system decides; here the
\* paths come in descending order.
RECURSIVE glob(_)
glob(S) ==
    IF S = {} THEN <<>>
    ELSE LET greatest == CHOOSE p \in S : \A q \in S : q <= p
         IN <<greatest>> \o glob(S \ {greatest})

\* sorted(glob.glob(...)), vcf2db.py:25: the paths in ascending order
RECURSIVE sorted(_)
sorted(S) ==
    IF S = {} THEN <<>>
    ELSE LET least == CHOOSE p \in S : \A q \in S : p <= q
         IN <<least>> \o sorted(S \ {least})

\* vcf2db.py:56-59, the loop over gene_symbols
RECURSIVE gene_loop(_, _, _, _)
gene_loop(db, sq, gene_symbols, location_id) ==
    IF gene_symbols = <<>> THEN Result(db, sq, 0)
    ELSE LET g == insert_gene(db, sq, <<Head(gene_symbols)>>)
             l == insert_gene_location(g.db, g.seq, <<g.id, location_id>>)
         IN gene_loop(l.db, l.seq, Tail(gene_symbols), location_id)

\* rows of `after` that `before` does not hold, table by table
Written(before, after) == [t \in Tables |-> after[t] \ before[t]]

NoRows == [t \in Tables |-> {}]

Union2(a, b) == [t \in Tables |-> a[t] \cup b[t]]

NoIds == [loc |-> {}, var |-> {}]

\* SpecRuns: the invocations of process_data, each on a connection of its own
Procs == {1, 2}

\* an invocation before it starts; ins and del are the rows its open
\* transaction added to and took from the database
NoRun ==
    [pc |-> "idle", path |-> 0, vcf |-> <<>>, pos |-> 0, processed |-> 0,
     collection_id |-> 0, var_location_id |-> 0, variant_id |-> 0, i |-> 0,
     error |-> None, ins |-> NoRows, del |-> NoRows, after |-> FALSE]

NoRuns == [p \in Procs |-> NoRun]

\* no file ingested in two orders yet
NoFold ==
    [started |-> FALSE, file |-> <<>>, other |-> <<>>, pos |-> 0, collection_id |-> 0,
     a |-> Result(create_tables, [t \in Tables |-> 0], 0),
     b |-> Result(create_tables, [t \in Tables |-> 0], 0)]

\* no extractor called yet
NoCsq ==
    [called |-> FALSE, csq_annotations |-> <<>>, csq_fields |-> <<>>, gene_symbols |-> {},
     rs_id |-> <<>>, annotations |-> <<>>]

\* the page before a file is uploaded and before the button is clicked
NoPage ==
    [uploaded |-> FALSE, file |-> <<>>,
     validation |-> [raised |-> None, errors |-> <<>>],
     csv_conditions |-> <<>>, csv_params |-> <<>>, message |-> None,
     clicked |-> FALSE,
     input |-> [gene_symbol |-> None, chromosome |-> "", start_pos |-> 0, end_pos |-> 0],
     error |-> None, executed |-> FALSE, query |-> [where |-> <<>>, params |-> <<>>]]

\* vcf2db.py before it is invoked
NoCli ==
    [pc |-> "idle",
     args |-> [create |-> FALSE, tables |-> FALSE, insert |-> FALSE, vcf |-> None],
     phases |-> <<>>, exit |-> None]

\* the server before any database is created
NoServer ==
    [databases |-> [n \in {"varmt", "test_varmt"} |-> <<>>],
     sessions |-> [n \in {"varmt", "test_varmt"} |-> FALSE],
     last |-> [op |-> "none", dbname |-> None, raised |-> None],
     replaced |-> {}]

\* no query made yet
NoResult == [made |-> FALSE, query |-> [error |-> None, rows |-> {}], db |-> create_tables]

Init ==
    /\ committed = create_tables
    /\ working = create_tables
    /\ seq = [t \in Tables |-> 0]
    /\ pc = "idle"
    /\ runs = 0
    /\ vcf_files = <<>>
    /\ vcf = <<>>
    /\ pos = 0
    /\ processed = 0
    /\ collection_id = 0
    /\ var_location_id = 0
    /\ variant_id = 0
    /\ i = 0
    /\ error = None
    /\ last_commit = create_tables
    /\ committed_processed = 0
    /\ file_start = create_tables
    /\ inflight = NoRows
    /\ returned = [live |-> NoIds, durable |-> NoIds]
    /\ last = [stmt |-> "none", conflict |-> FALSE]
    /\ opened = <<>>
    /\ run = NoRuns
    /\ result = NoResult
    /\ csq = NoCsq
    /\ fold = NoFold
    /\ page = NoPage
    /\ cli = NoCli
    /\ server = NoServer

(***************************************************************************)
(* process_data, vcf2db.py:14-92.                                          *)
(***************************************************************************)
\* vcf2db.py:19-29: connect, list the files
Start ==
    /\ pc \in {"idle", "raised"}
    /\ runs < MaxRuns
    /\ runs' = runs + 1
    /\ \E isdir \in BOOLEAN, S \in SUBSET Paths, p \in Paths :
          vcf_files' = IF isdir THEN sorted(S) ELSE <<p>>
    /\ working' = committed
    /\ pc' = "for_file"
    /\ vcf' = <<>>
    /\ pos' = 0
    /\ processed' = 0
    /\ collection_id' = 0
    /\ var_location_id' = 0
    /\ variant_id' = 0
    /\ i' = 0
    /\ error' = None
    /\ committed_processed' = 0
    /\ file_start' = committed
    /\ inflight' = NoRows
    /\ UNCHANGED <<committed, seq, last_commit, returned, last>>
    /\ opened' = <<>>
    /\ UNCHANGED aside

\* vcf2db.py:31-42: open the next file, insert its collection
OpenFile ==
    /\ pc = "for_file"
    /\ vcf_files # <<>>
    /\ \E f \in Files, sample_count \in SampleCounts :
          LET c == insert_collection(working, seq, <<sample_count>>)
          IN /\ Binds(insert_collection_placeholders, <<sample_count>>)
             /\ vcf' = f
             /\ working' = c.db
             /\ seq' = c.seq
             /\ collection_id' = c.id
             /\ committed' = AfterStatement(committed, c.db)
    /\ pos' = 0
    /\ processed' = 0
    /\ var_location_id' = 0
    /\ variant_id' = 0
    /\ i' = 0
    /\ pc' = "for_record"
    /\ committed_processed' = 0
    /\ file_start' = committed
    /\ inflight' = NoRows
    /\ UNCHANGED <<runs, vcf_files, error, last_commit, returned, last>>
    /\ opened' = Append(opened, [path |-> Head(vcf_files), collection_id |-> collection_id'])
    /\ UNCHANGED aside

\* vcf2db.py:43-49: read the next record, resolve its location
LocationStmt ==
    /\ pc = "for_record"
    /\ pos < Len(vcf)
    /\ LET record == vcf[pos + 1]
           params == <<record.chrom, record.pos, record.ref, Genome>>
           l == insert_variant_location(working, seq, params)
       IN /\ Binds(insert_variant_location_placeholders, params)
          /\ working' = l.db
          /\ seq' = l.seq
          /\ var_location_id' = l.id
          /\ committed' = AfterStatement(committed, l.db)
          /\ inflight' = Written(working, l.db)
    /\ pos' = pos + 1
    /\ pc' = "genes"
    /\ UNCHANGED <<runs, vcf_files, vcf, processed, collection_id, variant_id, i,
                   error, last_commit, committed_processed, file_start, returned, last>>
    /\ UNCHANGED <<opened, aside>>

\* vcf2db.py:51-61: the record's genes and gene-location links
GeneStmts ==
    /\ pc = "genes"
    /\ LET record == vcf[pos]
           ensembl_gene_id == record.gene
           gene_symbols == IF ensembl_gene_id # None
                           THEN map_gene_symbols(ensembl_gene_id, gene_mapping)
                           ELSE <<>>
           g == gene_loop(working, seq, gene_symbols, var_location_id)
       IN /\ working' = g.db
          /\ seq' = g.seq
          /\ committed' = AfterStatement(committed, g.db)
          /\ inflight' = Union2(inflight, Written(working, g.db))
    /\ i' = 1
    /\ pc' = "alleles"
    /\ UNCHANGED <<runs, vcf_files, vcf, pos, processed, collection_id,
                   var_location_id, variant_id, error, last_commit,
                   committed_processed, file_start, returned, last>>
    /\ UNCHANGED <<opened, aside>>

\* vcf2db.py:62-66: resolve the variant of the i-th alternate allele
VariantStmt ==
    /\ pc = "alleles"
    /\ i <= Len(vcf[pos].alts)
    /\ LET record == vcf[pos]
           rs_id == record.id
           params == <<var_location_id, rs_id, record.alts[i]>>
           v == insert_variant(working, seq, params)
       IN /\ Binds(insert_variant_placeholders, params)
          /\ working' = v.db
          /\ seq' = v.seq
          /\ variant_id' = v.id
          /\ committed' = AfterStatement(committed, v.db)
          /\ inflight' = Union2(inflight, Written(working, v.db))
    /\ pc' = "frequency"
    /\ UNCHANGED <<runs, vcf_files, vcf, pos, processed, collection_id,
                   var_location_id, i, error, last_commit, committed_processed,
                   file_start, returned, last>>
    /\ UNCHANGED <<opened, aside>>

\* vcf2db.py:68-74 for the k-th allele of a record, with the ids process_data
\* holds: the exception raised, or None, and the statement's result
frequency_outcome(record, view, sq, k, vid, cid) ==
    LET ac_info == record.ac
        an_info == record.an
    IN IF ac_info.is_list /\ k > Len(ac_info.values)
       THEN [exc |-> "IndexError", res |-> Result(view, sq, 0)]
       ELSE LET allele_count == IF ac_info.is_list THEN ac_info.values[k]
                                ELSE ac_info.values[1]
                params == <<vid, cid, allele_count, an_info>>
            IN IF Binds(insert_variant_frequency_placeholders, params)
               THEN [exc |-> None, res |-> insert_variant_frequency(view, sq, params)]
               ELSE [exc |-> "TypeError", res |-> Result(view, sq, 0)]

FrequencyOutcome(record, view, sq) ==
    frequency_outcome(record, view, sq, i, variant_id, collection_id)

\* C25's mutant: the handler logs the error and goes on with the next file.
FrequencyStmtSkipFile ==
    /\ pc = "frequency"
    /\ LET record == vcf[pos]
           o == FrequencyOutcome(record, working, seq)
           more == i < Len(record.alts)
           commits == ~more /\ (processed + 1) % BatchSize = 0
       IN IF o.exc # None
          THEN /\ committed' = OnException(committed, working)
               /\ working' = committed'
               /\ error' = o.exc
               /\ pc' = "for_file"
               /\ vcf_files' = Tail(vcf_files)
               /\ UNCHANGED <<seq, i, processed, last_commit, committed_processed,
                              inflight>>
          ELSE /\ seq' = o.res.seq
               /\ working' = o.res.db
               /\ committed' = IF commits THEN o.res.db
                               ELSE AfterStatement(committed, o.res.db)
               /\ last_commit' = IF commits THEN o.res.db ELSE last_commit
               /\ processed' = IF more THEN processed ELSE processed + 1
               /\ committed_processed' = IF commits THEN processed + 1
                                         ELSE committed_processed
               /\ i' = IF more THEN i + 1 ELSE i
               /\ pc' = IF more THEN "alleles" ELSE "for_record"
               /\ inflight' = IF more THEN Union2(inflight, Written(working, o.res.db))
                              ELSE NoRows
               /\ UNCHANGED error
    /\ LET o == FrequencyOutcome(vcf[pos], working, seq)
       IN o.exc = None => UNCHANGED vcf_files
    /\ UNCHANGED <<runs, vcf, pos, collection_id, var_location_id,
                   variant_id, file_start, returned, last>>
    /\ UNCHANGED <<opened, aside>>

\* vcf2db.py:68-79 and, when it raises, 85-92: the frequency of the i-th allele;
\* after the last allele the record is counted and every BatchSize-th commits
FrequencyStmt ==
    /\ pc = "frequency"
    /\ LET record == vcf[pos]
           o == FrequencyOutcome(record, working, seq)
           more == i < Len(record.alts)
           commits == ~more /\ (processed + 1) % BatchSize = 0
       IN IF o.exc # None
          THEN /\ committed' = OnException(committed, working)
               /\ working' = committed'
               /\ error' = o.exc
               /\ pc' = "raised"
               /\ UNCHANGED <<seq, i, processed, last_commit, committed_processed,
                              inflight>>
          ELSE /\ seq' = o.res.seq
               /\ working' = o.res.db
               /\ committed' = IF commits THEN o.res.db
                               ELSE AfterStatement(committed, o.res.db)
               /\ last_commit' = IF commits THEN o.res.db ELSE last_commit
               /\ processed' = IF more THEN processed ELSE processed + 1
               /\ committed_processed' = IF commits THEN processed + 1
                                         ELSE committed_processed
               /\ i' = IF more THEN i + 1 ELSE i
               /\ pc' = IF more THEN "alleles" ELSE "for_record"
               /\ inflight' = IF more THEN Union2(inflight, Written(working, o.res.db))
                              ELSE NoRows
               /\ UNCHANGED error
    /\ UNCHANGED <<runs, vcf_files, vcf, pos, collection_id, var_location_id,
                   variant_id, file_start, returned, last>>
    /\ UNCHANGED <<opened, aside>>

\* vcf2db.py:81-83, 89-90: end of file, commit, next file
EndOfFile ==
    /\ pc = "for_record"
    /\ pos = Len(vcf)
    /\ committed' = working
    /\ last_commit' = working
    /\ committed_processed' = processed
    /\ vcf_files' = Tail(vcf_files)
    /\ pc' = "for_file"
    /\ UNCHANGED <<working, seq, runs, vcf, pos, processed, collection_id,
                   var_location_id, variant_id, i, error, file_start, inflight,
                   returned, last>>
    /\ UNCHANGED <<opened, aside>>

\* vcf2db.py:91-92: every file is processed, process_data returns
Finish ==
    /\ pc = "for_file"
    /\ vcf_files = <<>>
    /\ pc' = "idle"
    /\ UNCHANGED <<committed, working, seq, runs, vcf_files, vcf, pos, processed,
                   collection_id, var_location_id, variant_id, i, error,
                   last_commit, committed_processed, file_start, inflight,
                   returned, last>>
    /\ UNCHANGED <<opened, aside>>

Next ==
    \/ Start
    \/ OpenFile
    \/ LocationStmt
    \/ GeneStmts
    \/ VariantStmt
    \/ FrequencyStmt
    \/ EndOfFile
    \/ Finish

Spec == Init /\ [][Next]_vars

(***************************************************************************)
(* The statements of db_utils.py on one connection, outside process_data:  *)
(* a client that keeps the ids the statements return, as process_data      *)
(* does, and binds one value to each placeholder.                          *)
(***************************************************************************)
HasId(rows, id) == \E r \in rows : r.id = id

\* every statement draws one value from its table's sequence
Statements ==
    seq.collections + seq.variant_locations + seq.variants + seq.variant_frequencies
    + seq.genes

\* vcf2db.py:39-40
CollectionStmt ==
    /\ Statements < MaxStatements
    /\ \E sample_count \in SampleCounts :
          LET params == <<sample_count>>
              c == insert_collection(working, seq, params)
          IN /\ Binds(insert_collection_placeholders, params)
             /\ working' = c.db
             /\ seq' = c.seq
             /\ collection_id' = c.id
             /\ committed' = AfterStatement(committed, c.db)
    /\ last' = [stmt |-> "collection", conflict |-> FALSE]
    /\ UNCHANGED <<pc, runs, vcf_files, vcf, pos, processed, var_location_id,
                   variant_id, i, error, last_commit, committed_processed,
                   file_start, inflight, returned>>
    /\ UNCHANGED <<opened, aside>>

\* vcf2db.py:48-49
ResolveLocation ==
    /\ Statements < MaxStatements
    /\ \E chromosome \in Chromosomes, position \in Positions, reference \in References :
          LET params == <<chromosome, position, reference, Genome>>
              l == insert_variant_location(working, seq, params)
          IN /\ Binds(insert_variant_location_placeholders, params)
             /\ working' = l.db
             /\ seq' = l.seq
             /\ var_location_id' = l.id
             /\ committed' = AfterStatement(committed, l.db)
             /\ returned' = [returned EXCEPT !.live.loc = @ \cup {<<params, l.id>>}]
             /\ last' = [stmt |-> "location",
                         conflict |-> l.db.variant_locations = working.variant_locations]
    /\ UNCHANGED <<pc, runs, vcf_files, vcf, pos, processed, collection_id,
                   variant_id, i, error, last_commit, committed_processed,
                   file_start, inflight>>
    /\ UNCHANGED <<opened, aside>>

\* vcf2db.py:51-59: the genes of a location and their links; FOREIGN KEY
\* (variant_location_id), db_utils.py:111
ResolveGenes ==
    /\ Statements < MaxStatements
    /\ HasId(working.variant_locations, var_location_id)
    /\ \E ensembl_gene_id \in DOMAIN gene_mapping \cup {"ENSG2"} :
          LET gene_symbols == map_gene_symbols(ensembl_gene_id, gene_mapping)
              g == gene_loop(working, seq, gene_symbols, var_location_id)
          IN /\ working' = g.db
             /\ seq' = g.seq
             /\ committed' = AfterStatement(committed, g.db)
             /\ last' = [stmt |-> "genes",
                         conflict |-> \E l \in working.gene_locations, h \in working.genes :
                                         /\ <<h.symbol>> = gene_symbols
                                         /\ l.gene_id = h.id
                                         /\ l.variant_location_id = var_location_id,
                         changed |-> g.db # working]
    /\ UNCHANGED <<pc, runs, vcf_files, vcf, pos, processed, collection_id,
                   var_location_id, variant_id, i, error, last_commit,
                   committed_processed, file_start, inflight, returned>>
    /\ UNCHANGED <<opened, aside>>

\* vcf2db.py:65-66; FOREIGN KEY (variant_location_id), db_utils.py:73
ResolveVariant ==
    /\ Statements < MaxStatements
    /\ HasId(working.variant_locations, var_location_id)
    /\ \E rs_id \in RsIds, alt_allele \in {"C", "G"} :
          LET params == <<var_location_id, rs_id, alt_allele>>
              v == insert_variant(working, seq, params)
          IN /\ Binds(insert_variant_placeholders, params)
             /\ working' = v.db
             /\ seq' = v.seq
             /\ variant_id' = v.id
             /\ committed' = AfterStatement(committed, v.db)
             /\ returned' = [returned EXCEPT !.live.var =
                                @ \cup {<<var_location_id, alt_allele, v.id>>}]
             /\ last' = [stmt |-> "variant",
                         conflict |-> \E r \in working.variants :
                                         /\ r.variant_location_id = var_location_id
                                         /\ r.alternate_allele = alt_allele,
                         rs_id |-> rs_id]
    /\ UNCHANGED <<pc, runs, vcf_files, vcf, pos, processed, collection_id,
                   var_location_id, i, error, last_commit, committed_processed,
                   file_start, inflight>>
    /\ UNCHANGED <<opened, aside>>

\* db_utils.py:160-170 with its three values; FOREIGN KEYs, db_utils.py:91-92
FoldFrequency ==
    /\ Statements < MaxStatements
    /\ HasId(working.variants, variant_id)
    /\ HasId(working.collections, collection_id)
    /\ \E allele_count \in {3, 5} :
          LET params == <<variant_id, collection_id, allele_count>>
              f == insert_variant_frequency(working, seq, params)
          IN /\ Binds(insert_variant_frequency_placeholders, params)
             /\ working' = f.db
             /\ seq' = f.seq
             /\ committed' = AfterStatement(committed, f.db)
             /\ last' = [stmt |-> "frequency",
                         conflict |-> \E r \in working.variant_frequencies :
                                         /\ r.variant_id = variant_id
                                         /\ r.collection_id = collection_id]
    /\ UNCHANGED <<pc, runs, vcf_files, vcf, pos, processed, collection_id,
                   var_location_id, variant_id, i, error, last_commit,
                   committed_processed, file_start, inflight, returned>>
    /\ UNCHANGED <<opened, aside>>

\* conn.commit(), vcf2db.py:79, 82
Commit ==
    /\ committed # working
    /\ committed' = working
    /\ last_commit' = working
    /\ returned' = [returned EXCEPT !.durable = returned.live]
    /\ last' = [stmt |-> "commit", conflict |-> FALSE]
    /\ UNCHANGED <<working, seq, pc, runs, vcf_files, vcf, pos, processed,
                   collection_id, var_location_id, variant_id, i, error,
                   committed_processed, file_start, inflight>>
    /\ UNCHANGED <<opened, aside>>

\* C26's mutant: the rollback also takes the committed Collection rows away.
RollbackCollections ==
    /\ committed # working
    /\ committed' = [committed EXCEPT !.collections = {}]
    /\ working' = committed'
    /\ returned' = [returned EXCEPT !.live = returned.durable]
    /\ last' = [stmt |-> "rollback", conflict |-> FALSE]
    /\ UNCHANGED <<seq, pc, runs, vcf_files, vcf, pos, processed,
                   collection_id, var_location_id, variant_id, i, error,
                   last_commit, committed_processed, file_start, inflight>>
    /\ UNCHANGED <<opened, aside>>

\* conn.rollback(), vcf2db.py:86
Rollback ==
    /\ committed # working
    /\ working' = committed
    /\ returned' = [returned EXCEPT !.live = returned.durable]
    /\ last' = [stmt |-> "rollback", conflict |-> FALSE]
    /\ UNCHANGED <<committed, seq, pc, runs, vcf_files, vcf, pos, processed,
                   collection_id, var_location_id, variant_id, i, error,
                   last_commit, committed_processed, file_start, inflight>>
    /\ UNCHANGED <<opened, aside>>

NextUpsert ==
    \/ CollectionStmt
    \/ ResolveLocation
    \/ ResolveGenes
    \/ ResolveVariant
    \/ FoldFrequency
    \/ Commit
    \/ Rollback

SpecUpsert == Init /\ [][NextUpsert]_vars

(***************************************************************************)
(* Two invocations of process_data, each on its own connection to the one  *)
(* database, in any interleaving of their statements. PostgreSQL runs them *)
(* READ COMMITTED: a statement sees the database as committed and its own  *)
(* transaction's rows, and an INSERT whose unique key another open         *)
(* transaction has inserted waits until that transaction ends.             *)
(***************************************************************************)
\* the state of the one invocation that Spec follows
connection ==
    <<working, pc, runs, vcf_files, vcf, pos, processed, collection_id,
      var_location_id, variant_id, i, error, last_commit, committed_processed,
      file_start, inflight, returned, last, opened>>

\* the files an invocation is given: the second record of a file is never
\* reached (every record fails at its frequency), so one record is enough
RunFiles == {f \in Files : Len(f) <= 1}

\* what a statement of invocation p sees
View(p) == [t \in Tables |-> (committed[t] \ run[p].del[t]) \cup run[p].ins[t]]

\* the open transaction of a connection whose view is db
Tx(db) ==
    [ins |-> [t \in Tables |-> db[t] \ committed[t]],
     del |-> [t \in Tables |-> committed[t] \ db[t]]]

\* the UNIQUE key of a row, db_utils.py:63, 74, 93, 101, 112
Key(t, r) ==
    CASE t = "variant_locations" ->
            <<r.chromosome, r.position, r.reference_allele, r.genome_version>>
      [] t = "variants" -> <<r.variant_location_id, r.alternate_allele>>
      [] t = "variant_frequencies" -> <<r.variant_id, r.collection_id>>
      [] t = "genes" -> <<r.symbol>>
      [] t = "gene_locations" -> <<r.gene_id, r.variant_location_id>>
      [] OTHER -> <<r.id>>

\* another open transaction has inserted a row of this key: the INSERT waits
Waits(p, t, key) ==
    \E q \in Procs \ {p} : \E r \in run[q].ins[t] : Key(t, r) = key

Ended(p) == run[p].pc \in {"done", "raised"}

\* vcf2db.py:19-42 for vcf_path a file: connect, open it, insert its collection
RunStart(p) ==
    /\ run[p].pc = "idle"
    /\ \E path \in Paths, f \in RunFiles, sample_count \in SampleCounts :
          LET c == insert_collection(View(p), seq, <<sample_count>>)
          IN /\ Binds(insert_collection_placeholders, <<sample_count>>)
             /\ seq' = c.seq
             /\ run' = [run EXCEPT ![p] =
                          [NoRun EXCEPT !.pc = "for_record", !.path = path, !.vcf = f,
                                        !.collection_id = c.id,
                                        !.ins = Tx(c.db).ins, !.del = Tx(c.db).del,
                                        !.after = \A q \in Procs \ {p} : Ended(q)]]
    /\ UNCHANGED <<committed, connection, result, csq, fold, page, cli, server>>

\* vcf2db.py:43-49
RunLocation(p) ==
    /\ run[p].pc = "for_record"
    /\ run[p].pos < Len(run[p].vcf)
    /\ LET record == run[p].vcf[run[p].pos + 1]
           params == <<record.chrom, record.pos, record.ref, Genome>>
           l == insert_variant_location(View(p), seq, params)
       IN /\ Binds(insert_variant_location_placeholders, params)
          /\ ~Waits(p, "variant_locations", params)
          /\ seq' = l.seq
          /\ run' = [run EXCEPT ![p].pc = "genes", ![p].pos = @ + 1,
                                ![p].var_location_id = l.id,
                                ![p].ins = Tx(l.db).ins, ![p].del = Tx(l.db).del]
    /\ UNCHANGED <<committed, connection, result, csq, fold, page, cli, server>>

\* vcf2db.py:51-61
RunGenes(p) ==
    /\ run[p].pc = "genes"
    /\ LET record == run[p].vcf[run[p].pos]
           ensembl_gene_id == record.gene
           gene_symbols == IF ensembl_gene_id # None
                           THEN map_gene_symbols(ensembl_gene_id, gene_mapping)
                           ELSE <<>>
           g == gene_loop(View(p), seq, gene_symbols, run[p].var_location_id)
       IN /\ \A k \in 1..Len(gene_symbols) :
                /\ ~Waits(p, "genes", <<gene_symbols[k]>>)
                /\ ~Waits(p, "gene_locations",
                          <<insert_gene(View(p), seq, <<gene_symbols[k]>>).id,
                            run[p].var_location_id>>)
          /\ seq' = g.seq
          /\ run' = [run EXCEPT ![p].pc = "alleles", ![p].i = 1,
                                ![p].ins = Tx(g.db).ins, ![p].del = Tx(g.db).del]
    /\ UNCHANGED <<committed, connection, result, csq, fold, page, cli, server>>

\* vcf2db.py:62-66
RunVariant(p) ==
    /\ run[p].pc = "alleles"
    /\ run[p].i <= Len(run[p].vcf[run[p].pos].alts)
    /\ LET record == run[p].vcf[run[p].pos]
           rs_id == record.id
           params == <<run[p].var_location_id, rs_id, record.alts[run[p].i]>>
           v == insert_variant(View(p), seq, params)
       IN /\ Binds(insert_variant_placeholders, params)
          /\ ~Waits(p, "variants", <<params[1], params[3]>>)
          /\ seq' = v.seq
          /\ run' = [run EXCEPT ![p].pc = "frequency", ![p].variant_id = v.id,
                                ![p].ins = Tx(v.db).ins, ![p].del = Tx(v.db).del]
    /\ UNCHANGED <<committed, connection, result, csq, fold, page, cli, server>>

\* vcf2db.py:68-79 and, when it raises, 85-92
RunFrequency(p) ==
    /\ run[p].pc = "frequency"
    /\ ~Waits(p, "variant_frequencies", <<run[p].variant_id, run[p].collection_id>>)
    /\ LET record == run[p].vcf[run[p].pos]
           o == frequency_outcome(record, View(p), seq, run[p].i, run[p].variant_id,
                                  run[p].collection_id)
           more == run[p].i < Len(record.alts)
           commits == ~more /\ (run[p].processed + 1) % BatchSize = 0
       IN IF o.exc # None
          THEN /\ committed' = OnException(committed, View(p))
               /\ run' = [run EXCEPT ![p].pc = "raised", ![p].error = o.exc,
                                     ![p].ins = NoRows, ![p].del = NoRows]
               /\ UNCHANGED seq
          ELSE /\ seq' = o.res.seq
               /\ committed' = IF commits THEN o.res.db
                               ELSE AfterStatement(committed, o.res.db)
               /\ run' = [run EXCEPT
                            ![p].pc = IF more THEN "alleles" ELSE "for_record",
                            ![p].i = IF more THEN @ + 1 ELSE @,
                            ![p].processed = IF more THEN @ ELSE @ + 1,
                            ![p].ins = IF commits THEN NoRows ELSE Tx(o.res.db).ins,
                            ![p].del = IF commits THEN NoRows ELSE Tx(o.res.db).del]
    /\ UNCHANGED <<connection, result, csq, fold, page, cli, server>>

\* vcf2db.py:81-83, 89-92: end of the file, commit, return
RunEndOfFile(p) ==
    /\ run[p].pc = "for_record"
    /\ run[p].pos = Len(run[p].vcf)
    /\ committed' = View(p)
    /\ run' = [run EXCEPT ![p].pc = "done", ![p].ins = NoRows, ![p].del = NoRows]
    /\ UNCHANGED <<seq, connection, result, csq, fold, page, cli, server>>

NextRuns ==
    \E p \in Procs :
        \/ RunStart(p)
        \/ RunLocation(p)
        \/ RunGenes(p)
        \/ RunVariant(p)
        \/ RunFrequency(p)
        \/ RunEndOfFile(p)

SpecRuns == Init /\ [][NextRuns]_vars

(***************************************************************************)
(* The query layer, queries/variant_queries.py, on a connection of its    *)
(* own (utils/streamlit_db.py): it reads the database as committed.        *)
(***************************************************************************)
\* the columns of variant_frequencies, db_utils.py:85-95
variant_frequencies_columns == {"id", "variant_id", "collection_id", "alternate_allele_count"}

\* SUM(vf.alternate_allele_count) over a set of frequency rows
RECURSIVE SumAlternateAlleleCount(_)
SumAlternateAlleleCount(rows) ==
    IF rows = {} THEN 0
    ELSE LET r == CHOOSE x \in rows : TRUE
         IN r.alternate_allele_count + SumAlternateAlleleCount(rows \ {r})

\* SUM(vf.allele_number) over a set of frequency rows
RECURSIVE SumAlleleNumber(_)
SumAlleleNumber(rows) ==
    IF rows = {} THEN 0
    ELSE LET r == CHOOSE x \in rows : TRUE
         IN r.allele_number + SumAlleleNumber(rows \ {r})

\* ROUND(n::numeric / d, 4), in ten-thousandths
Round4(n, d) == (2 * 10000 * n + d) \div (2 * d)

\* the frequency rows the query joins to a variant
JoinedFrequencies(db, v) == {f \in db.variant_frequencies : f.variant_id = v.id}

\* LEFT JOIN variant_vep_annotations: the variant's annotation rows as the
\* GROUP BY tells them apart, or one all-NULL row
JoinedAnnotations(db, v) ==
    LET facts == {[transcript_id |-> a.transcript_id, hgvs_c |-> a.hgvs_c,
                   hgvs_p |-> a.hgvs_p, consequence |-> a.consequence,
                   impact |-> a.impact] :
                     a \in {x \in db.variant_vep_annotations : x.variant_id = v.id}}
    IN IF facts = {}
       THEN {[transcript_id |-> None, hgvs_c |-> None, hgvs_p |-> None,
              consequence |-> None, impact |-> None]}
       ELSE facts

\* the joined rows of one group: each frequency row once per annotation row
\* that carries the group's fact
Multiplicity(db, v, a) ==
    LET same == {x \in db.variant_vep_annotations :
                    /\ x.variant_id = v.id
                    /\ x.transcript_id = a.transcript_id /\ x.hgvs_c = a.hgvs_c
                    /\ x.hgvs_p = a.hgvs_p /\ x.consequence = a.consequence
                    /\ x.impact = a.impact}
    IN IF same = {} THEN 1 ELSE Cardinality(same)

\* variant_queries.py:14-44: the rows of get_variants_in_range, or the error
\* PostgreSQL answers: the statement names a relation and a column, and the
\* database must have both
get_variants_in_range(db, chromosome) ==
    IF "variant_vep_annotations" \notin DOMAIN db
    THEN [error |-> "UndefinedTable", rows |-> {}]
    ELSE IF "allele_number" \notin variant_frequencies_columns
    THEN [error |-> "UndefinedColumn", rows |-> {}]
    ELSE [error |-> None,
          rows |->
            {[chromosome |-> g[1].chromosome, position |-> g[1].position,
              reference_allele |-> g[1].reference_allele,
              alternate_allele |-> g[2].alternate_allele, rs_id |-> g[2].rs_id,
              alternate_allele_count |->
                  Multiplicity(db, g[2], g[3])
                  * SumAlternateAlleleCount(JoinedFrequencies(db, g[2])),
              allele_number |->
                  Multiplicity(db, g[2], g[3]) * SumAlleleNumber(JoinedFrequencies(db, g[2])),
              alt_allele_freq |->
                  Round4(SumAlternateAlleleCount(JoinedFrequencies(db, g[2])),
                         SumAlleleNumber(JoinedFrequencies(db, g[2]))),
              transcript_id |-> g[3].transcript_id, hgvs_c |-> g[3].hgvs_c,
              hgvs_p |-> g[3].hgvs_p, consequence |-> g[3].consequence,
              impact |-> g[3].impact] :
             g \in UNION {{<<vl, v, a>> : a \in JoinedAnnotations(db, v)} :
                            <<vl, v>> \in {x \in db.variant_locations \X db.variants :
                                             /\ x[1].chromosome = chromosome
                                             /\ x[1].id = x[2].variant_location_id
                                             /\ JoinedFrequencies(db, x[2]) # {}}}}]

\* 1_Advanced_Search.py:236, streamlit_db.py:41-60: a search runs the query
Query ==
    /\ \E chromosome \in Chromosomes :
          result' = [made |-> TRUE, query |-> get_variants_in_range(committed, chromosome),
                     db |-> committed]
    /\ UNCHANGED <<committed, seq, connection, run, csq, fold, page, cli, server>>

NextQuery ==
    \/ NextUpsert
    \/ Query

SpecQuery == Init /\ [][NextQuery]_vars

(***************************************************************************)
(* One file ingested in two orders of its records, each into a database of *)
(* its own: the statements of a record in the order of vcf2db.py:44-74,    *)
(* the frequency statement bound to the three values its placeholders      *)
(* take, as in SpecUpsert.                                                 *)
(***************************************************************************)
\* the records with a count for each allele, at any position
FoldRecords ==
    {r \in [chrom : Chromosomes, pos : Positions, ref : References, alts : Alts,
            id : RsIds, gene : GeneIds, ac : AlleleCounts, an : AlleleNumbers,
            csq : RecordPayloads] :
        /\ (r.id = None) <=> (r.gene = None)
        /\ r.gene = "ENSG2" => (Len(r.alts) = 1 /\ ~r.ac.is_list)
        /\ (r.csq # <<>>) <=> (r.gene = "ENSG1")
        /\ ~r.ac.is_list \/ Len(r.ac.values) >= Len(r.alts)}

FoldFiles == SeqsUpTo(FoldRecords, MaxRecords)

\* the orders of the records of a file
RecordOrders(f) ==
    {[k \in 1..Len(f) |-> f[g[k]]] :
        g \in {h \in [1..Len(f) -> 1..Len(f)] : \A j, k \in 1..Len(f) : h[j] = h[k] => j = k}}

\* vcf2db.py:62-74, the loop over record.alts from the k-th allele on
RECURSIVE allele_loop(_, _, _, _, _, _)
allele_loop(db, sq, record, location_id, cid, k) ==
    IF k > Len(record.alts) THEN Result(db, sq, 0)
    ELSE LET rs_id == record.id
             v == insert_variant(db, sq, <<location_id, rs_id, record.alts[k]>>)
             ac_info == record.ac
             allele_count == IF ac_info.is_list THEN ac_info.values[k]
                             ELSE ac_info.values[1]
             f == insert_variant_frequency(v.db, v.seq, <<v.id, cid, allele_count>>)
         IN allele_loop(f.db, f.seq, record, location_id, cid, k + 1)

\* vcf2db.py:44-74, one record
ingest_record(db, sq, record, cid) ==
    LET l == insert_variant_location(db, sq, <<record.chrom, record.pos, record.ref, Genome>>)
        ensembl_gene_id == record.gene
        gene_symbols == IF ensembl_gene_id # None
                        THEN map_gene_symbols(ensembl_gene_id, gene_mapping)
                        ELSE <<>>
        g == gene_loop(l.db, l.seq, gene_symbols, l.id)
    IN allele_loop(g.db, g.seq, record, l.id, cid, 1)

\* vcf2db.py:31-42: the file is opened in each order, its collection inserted
FoldStart ==
    /\ ~fold.started
    /\ \E f \in FoldFiles, sample_count \in SampleCounts :
          \E o \in RecordOrders(f) :
             LET c == insert_collection(create_tables, [t \in Tables |-> 0], <<sample_count>>)
             IN fold' = [started |-> TRUE, file |-> f, other |-> o, pos |-> 0,
                         collection_id |-> c.id, a |-> c, b |-> c]
    /\ UNCHANGED <<committed, seq, connection, run, result, csq, page, cli, server>>

\* vcf2db.py:43-76: the next record of each order
FoldRecord ==
    /\ fold.started
    /\ fold.pos < Len(fold.file)
    /\ fold' = [fold EXCEPT
                  !.pos = @ + 1,
                  !.a = ingest_record(fold.a.db, fold.a.seq, fold.file[fold.pos + 1],
                                      fold.collection_id),
                  !.b = ingest_record(fold.b.db, fold.b.seq, fold.other[fold.pos + 1],
                                      fold.collection_id)]
    /\ UNCHANGED <<committed, seq, connection, run, result, csq, page, cli, server>>

NextFold ==
    \/ FoldStart
    \/ FoldRecord

SpecFold == Init /\ [][NextFold]_vars

(***************************************************************************)
(* The annotation extractors, utils/vep_utils.py. A string is the sequence *)
(* of its characters; Python's None is Null and a value x that may be None *)
(* is Some(x).                                                             *)
(***************************************************************************)
Null == <<>>

Some(x) == <<x>>

\* record.info['CSQ'], a tuple of entries; the empty tuple stands for None too
Payloads == SeqsUpTo(Annotations, MaxEntries)

\* the field names of the Format of the CSQ header
Headers ==
    { <<"SYMBOL", "Existing_variation", "Feature", "HGVSc", "HGVSp", "Consequence", "IMPACT">>,
      <<"Existing_variation", "SYMBOL">>,
      <<"Feature", "IMPACT", "Consequence">> }

\* vep_utils.py:17-18: {field: i for i, field in enumerate(csq_fields)}
parse_csq_header(csq_fields) ==
    [field \in {csq_fields[k] : k \in 1..Len(csq_fields)} |->
        (CHOOSE k \in 1..Len(csq_fields) :
            /\ csq_fields[k] = field
            /\ \A j \in (k + 1)..Len(csq_fields) : csq_fields[j] # field) - 1]

\* dict.get(key)
get(dict, key) == IF key \in DOMAIN dict THEN Some(dict[key]) ELSE Null

\* str.split(sep) for a separator of one character
RECURSIVE split(_, _)
split(string, sep) ==
    IF \A k \in 1..Len(string) : string[k] # sep THEN <<string>>
    ELSE LET k == CHOOSE j \in 1..Len(string) :
                     string[j] = sep /\ \A h \in 1..(j - 1) : string[h] # sep
         IN <<SubSeq(string, 1, k - 1)>> \o split(SubSeq(string, k + 1, Len(string)), sep)

\* str.startswith(prefix)
startswith(string, prefix) ==
    Len(string) >= Len(prefix) /\ SubSeq(string, 1, Len(prefix)) = prefix

\* vep_utils.py:106-110: fields[idx] if idx is not None and len(fields) > idx
\* and fields[idx] else None
field_or_none(fields, idx) ==
    IF idx # Null /\ Len(fields) > idx[1] /\ fields[idx[1] + 1] # <<>>
    THEN Some(fields[idx[1] + 1])
    ELSE Null

\* vep_utils.py:20-46
extract_gene_symbols_from_csq(csq_annotations, csq_index) ==
    IF csq_annotations = <<>> THEN {}
    ELSE LET symbol_idx == get(csq_index, "SYMBOL")
         IN IF symbol_idx = Null THEN {}
            ELSE {split(csq_annotations[k], "|")[symbol_idx[1] + 1] :
                    k \in {j \in 1..Len(csq_annotations) :
                             LET fields == split(csq_annotations[j], "|")
                             IN /\ Len(fields) > symbol_idx[1]
                                /\ fields[symbol_idx[1] + 1] # <<>>}}

\* vep_utils.py:73-75: the first id of the field that starts with rs, or Null
RECURSIVE first_rsid(_)
first_rsid(var_ids) ==
    IF var_ids = <<>> THEN Null
    ELSE IF startswith(Head(var_ids), <<"r", "s">>) THEN Some(Head(var_ids))
    ELSE first_rsid(Tail(var_ids))

\* C21's mutant: only the first entry is searched.
rsid_first_entry(csq_annotations, existing_var_idx) ==
    IF csq_annotations = <<>> THEN Null
    ELSE LET fields == split(Head(csq_annotations), "|")
         IN IF Len(fields) > existing_var_idx /\ fields[existing_var_idx + 1] # <<>>
            THEN first_rsid(split(fields[existing_var_idx + 1], "&"))
            ELSE Null

\* vep_utils.py:67-77: the loop over the entries
RECURSIVE rsid_loop(_, _)
rsid_loop(csq_annotations, existing_var_idx) ==
    IF csq_annotations = <<>> THEN Null
    ELSE LET fields == split(Head(csq_annotations), "|")
             found == IF Len(fields) > existing_var_idx /\ fields[existing_var_idx + 1] # <<>>
                      THEN first_rsid(split(fields[existing_var_idx + 1], "&"))
                      ELSE Null
         IN IF found # Null THEN found
            ELSE rsid_loop(Tail(csq_annotations), existing_var_idx)

\* vep_utils.py:48-77
extract_rsid_from_csq(csq_annotations, csq_index) ==
    IF csq_annotations = <<>> THEN Null
    ELSE LET existing_var_idx == get(csq_index, "Existing_variation")
         IN IF existing_var_idx = Null THEN Null
            ELSE rsid_loop(csq_annotations, existing_var_idx[1])

\* vep_utils.py:102-118, the fact of one entry
annotation_fact(annotation, csq_index) ==
    LET fields == split(annotation, "|")
    IN [transcript_id |-> field_or_none(fields, get(csq_index, "Feature")),
        hgvs_c |-> field_or_none(fields, get(csq_index, "HGVSc")),
        hgvs_p |-> field_or_none(fields, get(csq_index, "HGVSp")),
        consequence |-> field_or_none(fields, get(csq_index, "Consequence")),
        impact |-> field_or_none(fields, get(csq_index, "IMPACT"))]

\* C20's mutant: an entry without a transcript is skipped.
RECURSIVE extract_annotations_with_transcript(_, _)
extract_annotations_with_transcript(csq_annotations, csq_index) ==
    IF csq_annotations = <<>> THEN <<>>
    ELSE LET fact == annotation_fact(Head(csq_annotations), csq_index)
             rest == extract_annotations_with_transcript(Tail(csq_annotations), csq_index)
         IN IF fact.transcript_id = Null THEN rest ELSE <<fact>> \o rest

\* vep_utils.py:79-120
RECURSIVE extract_annotations_from_csq(_, _)
extract_annotations_from_csq(csq_annotations, csq_index) ==
    IF csq_annotations = <<>> THEN <<>>
    ELSE <<annotation_fact(Head(csq_annotations), csq_index)>>
         \o extract_annotations_from_csq(Tail(csq_annotations), csq_index)

\* a record's payload goes through the three extractors
Extract ==
    /\ ~csq.called
    /\ \E csq_annotations \in Payloads, csq_fields \in Headers :
          LET csq_index == parse_csq_header(csq_fields)
          IN csq' = [called |-> TRUE,
                     csq_annotations |-> csq_annotations,
                     csq_fields |-> csq_fields,
                     gene_symbols |-> extract_gene_symbols_from_csq(csq_annotations, csq_index),
                     rs_id |-> extract_rsid_from_csq(csq_annotations, csq_index),
                     annotations |-> extract_annotations_from_csq(csq_annotations, csq_index)]
    /\ UNCHANGED <<committed, seq, connection, run, result, fold, page, cli, server>>

NextCsq == Extract

SpecCsq == Init /\ [][NextCsq]_vars

(***************************************************************************)
(* The bulk search validator, utils/csv_parser.py, and the advanced search *)
(* page, pages/1_Advanced_Search.py.                                       *)
(***************************************************************************)
\* The rows of an uploaded file as the text of their cells, an empty cell
\* being "": a gene only, a full triple, the page's own example rows (line 58),
\* chromosome 23, start above end, a gene with a chromosome only, positions
\* without chromosome, a position of 0, of 1.5, of abc, of inf, a blank gene,
\* an empty row.
Row(gene_symbol, chromosome, start_position, end_position) ==
    [gene_symbol |-> gene_symbol, chromosome |-> chromosome,
     start_position |-> start_position, end_position |-> end_position]

CsvRows ==
    { Row("BRCA1", "", "", ""),
      Row("", "1", "5", "10"),
      Row("", "17", "5", "5"),
      Row("TP53", "chrX", "5", "10"),
      Row("", "23", "5", "10"),
      Row("", "chrX", "20", "10"),
      Row("BRCA1", "1", "", ""),
      Row("", "", "5", "10"),
      Row("", "1", "0", "10"),
      Row("", "chrX", "1.5", "10"),
      Row("", "1", "abc", "10"),
      Row("", "1", "inf", "10"),
      Row(" ", "", "", ""),
      Row("", "", "", "") }

CsvFiles == SeqsUpTo(CsvRows, MaxRows)

\* the decimal integers of the cells and their values
IntegerTexts == {"0", "1", "5", "10", "17", "20", "23"}

Value(text) ==
    CASE text = "0" -> 0 [] text = "1" -> 1 [] text = "5" -> 5 [] text = "10" -> 10
      [] text = "17" -> 17 [] text = "20" -> 20 [] text = "23" -> 23

\* the texts pandas parses as a floating point number, and their value in tenths
FloatTexts == IntegerTexts \cup {"1.5", "inf"}

Tenths(text) == IF text = "1.5" THEN 15 ELSE Value(text) * 10

\* A cell of the DataFrame: NaN, a str, an int, a float (in tenths) or the
\* float infinity.
NaN == [kind |-> "nan", text |-> "", num |-> 0]

Cell(kind, text, num) == [kind |-> kind, text |-> text, num |-> num]

\* pd.read_csv's type inference for a column (1_Advanced_Search.py:78, default
\* dtype): int64 if every cell is an integer, float64 if every cell is a
\* number or empty, object otherwise
dtype(texts) ==
    IF \E t \in texts : t \notin FloatTexts \cup {""} THEN "object"
    ELSE IF texts \subseteq IntegerTexts THEN "int64"
    ELSE "float64"

\* the cell pd.read_csv makes of a text in a column of that dtype
read_cell(text, column_dtype) ==
    IF text = "" THEN NaN
    ELSE IF column_dtype = "object" THEN Cell("str", text, 0)
    ELSE IF column_dtype = "int64" THEN Cell("int", "", Value(text))
    ELSE IF text = "inf" THEN Cell("inf", "", 0)
    ELSE Cell("float", "", Tenths(text))

Columns == {"gene_symbol", "chromosome", "start_position", "end_position"}

\* 1_Advanced_Search.py:78, csv_df = pd.read_csv(uploaded_file): the dtype of
\* each column and the rows of cells
read_csv(file) ==
    LET dtypes == [c \in Columns |-> dtype({file[j][c] : j \in 1..Len(file)})]
    IN [dtypes |-> dtypes,
        rows |-> [k \in 1..Len(file) |->
                    [c \in Columns |-> read_cell(file[k][c], dtypes[c])]]]

\* df.iterrows() (csv_parser.py:79, 162): each row is a Series of one dtype,
\* so with no object column the int cells of a row arrive as floats
iterrows(df) ==
    IF \E c \in Columns : df.dtypes[c] = "object" THEN df.rows
    ELSE [k \in 1..Len(df.rows) |->
            [c \in Columns |->
                IF df.rows[k][c].kind = "int"
                THEN Cell("float", "", df.rows[k][c].num * 10)
                ELSE df.rows[k][c]]]

\* csv_parser.py:14-45; the columns of the model's files carry the standard names
detect_csv_format(df) == [c \in Columns |-> c]

\* pd.notna
notna(cell) == cell.kind # "nan"

\* str(value) of a cell: an int prints its digits, a float its digits, the
\* point and the decimals
str(cell) ==
    CASE cell.kind = "str" -> cell.text
      [] cell.kind = "int" ->
            (CHOOSE t \in IntegerTexts : Value(t) = cell.num)
      [] cell.kind = "float" ->
            (CASE cell.num = 10 -> "1.0" [] cell.num = 170 -> "17.0" [] cell.num = 230 -> "23.0"
               [] cell.num = 50 -> "5.0" [] cell.num = 100 -> "10.0" [] cell.num = 200 -> "20.0"
               [] cell.num = 0 -> "0.0" [] cell.num = 15 -> "1.5")
      [] cell.kind = "inf" -> "inf"
      [] cell.kind = "nan" -> "nan"

\* str.strip(); " " is the one text of the model with white space
strip(text) == IF text = " " THEN "" ELSE text

\* int(value) of a cell: a str is parsed (ValueError unless an integer), a
\* float is truncated, infinity raises OverflowError
int(cell) ==
    CASE cell.kind = "str" ->
            IF cell.text \in IntegerTexts THEN [raised |-> None, value |-> Value(cell.text)]
            ELSE [raised |-> "ValueError", value |-> 0]
      [] cell.kind = "int" -> [raised |-> None, value |-> cell.num]
      [] cell.kind = "float" -> [raised |-> None, value |-> cell.num \div 10]
      [] cell.kind = "inf" -> [raised |-> "OverflowError", value |-> 0]
      [] cell.kind = "nan" -> [raised |-> "ValueError", value |-> 0]

\* csv_parser.py:70-71, the members the cells of the model can spell
valid_chromosomes ==
    {"1", "17", "22", "X", "Y", "MT", "chrX", "chrY", "chrMT", "chr1", "chr17", "chr22"}

\* an error message of the validator: the row number and the text after it
Message(row_num, text) == [row_num |-> row_num, text |-> text]

\* csv_parser.py:79-125, the body of the loop for one row: the errors it
\* appends, and the exception int() raises past the except clause if any
validate_row(row, row_num) ==
    LET has_gene == notna(row.gene_symbol)
        has_chr == notna(row.chromosome)
        has_start == notna(row.start_position)
        has_end == notna(row.end_position)
        chr_value == strip(str(row.chromosome))
        chr_errors ==
            IF has_chr /\ chr_value \notin valid_chromosomes
            THEN <<Message(row_num, "Invalid chromosome")>> ELSE <<>>
        start_value == int(row.start_position)
        end_value == int(row.end_position)
        caught == {"ValueError", "TypeError"}
        escaped ==
            IF ~(has_start /\ has_end) THEN None
            ELSE IF start_value.raised # None
                 THEN (IF start_value.raised \in caught THEN None ELSE start_value.raised)
            ELSE IF end_value.raised # None
                 THEN (IF end_value.raised \in caught THEN None ELSE end_value.raised)
            ELSE None
        pos_errors ==
            IF ~(has_start /\ has_end) THEN <<>>
            ELSE IF start_value.raised # None \/ end_value.raised # None
                 THEN <<Message(row_num, "start_position and end_position must be valid integers")>>
            ELSE IF start_value.value <= 0 \/ end_value.value <= 0
                 THEN <<Message(row_num, "start_position and end_position must be positive integers")>>
            ELSE IF start_value.value > end_value.value
                 THEN <<Message(row_num, "start_position must be <= end_position")>>
            ELSE <<>>
        gene_errors ==
            IF has_gene /\ strip(str(row.gene_symbol)) = ""
            THEN <<Message(row_num, "gene_symbol cannot be empty")>> ELSE <<>>
    IN IF ~(has_gene \/ (has_chr /\ has_start /\ has_end))
       THEN [raised |-> None,
             errors |-> <<Message(row_num, "Must have gene_symbol OR (chromosome + start_position + end_position)")>>]
       ELSE IF has_chr /\ ~(has_start /\ has_end)
       THEN [raised |-> None,
             errors |-> <<Message(row_num, "Chromosome queries require both start_position and end_position")>>]
       ELSE IF (has_start \/ has_end) /\ ~has_chr
       THEN [raised |-> None,
             errors |-> <<Message(row_num, "start_position and end_position require chromosome")>>]
       ELSE IF escaped # None
       THEN [raised |-> escaped, errors |-> chr_errors]
       ELSE [raised |-> None, errors |-> chr_errors \o pos_errors \o gene_errors]

\* csv_parser.py:79-127, the loop from the row of index idx (0-based) on, given
\* the errors collected so far
RECURSIVE validate_loop(_, _, _)
validate_loop(rows, idx, errors) ==
    IF idx >= Len(rows) THEN [raised |-> None, errors |-> errors]
    ELSE LET row == validate_row(rows[idx + 1], idx + 2)
         IN IF row.raised # None THEN [raised |-> row.raised, errors |-> <<>>]
            ELSE validate_loop(rows, idx + 1, errors \o row.errors)

\* csv_parser.py:48-127
validate_csv_data(df, detected_format) == validate_loop(iterrows(df), 0, <<>>)

\* csv_parser.py:162-189, the condition and the parameters of one row
row_conditions(row) ==
    LET has_gene == notna(row.gene_symbol)
        has_position ==
            notna(row.chromosome) /\ notna(row.start_position) /\ notna(row.end_position)
    IN [conditions |->
            IF has_gene /\ has_position
            THEN <<"(UPPER(g.symbol) = UPPER(%s) AND vl.chromosome = %s AND vl.position BETWEEN %s AND %s)">>
            ELSE IF has_gene THEN <<"(UPPER(g.symbol) = UPPER(%s))">>
            ELSE IF has_position
            THEN <<"(vl.chromosome = %s AND vl.position BETWEEN %s AND %s)">>
            ELSE <<>>,
        params |->
            (IF has_gene THEN <<Cell("str", strip(str(row.gene_symbol)), 0)>> ELSE <<>>)
            \o (IF has_position
                THEN <<Cell("str", strip(str(row.chromosome)), 0),
                       Cell("int", "", int(row.start_position).value),
                       Cell("int", "", int(row.end_position).value)>>
                ELSE <<>>)]

\* csv_parser.py:162-189, the loop over the rows
RECURSIVE conditions_loop(_)
conditions_loop(rows) ==
    IF rows = <<>> THEN [conditions |-> <<>>, params |-> <<>>]
    ELSE LET first == row_conditions(Head(rows))
             rest == conditions_loop(Tail(rows))
         IN [conditions |-> first.conditions \o rest.conditions,
             params |-> first.params \o rest.params]

\* csv_parser.py:130-191
build_query_conditions(df, detected_format) == conditions_loop(iterrows(df))

\* 1_Advanced_Search.py:71-98, the upload section of one run of the script:
\* what it leaves in csv_conditions and csv_params (Null: None) and the
\* message it shows
upload_section(file) ==
    LET csv_df == read_csv(file)
        detected_format == detect_csv_format(csv_df)
        validation_errors == validate_csv_data(csv_df, detected_format)
        built == build_query_conditions(csv_df, detected_format)
    IN IF validation_errors.raised # None
       THEN [validation |-> validation_errors, csv_conditions |-> Null, csv_params |-> Null,
             message |-> "Error processing CSV"]
       ELSE IF validation_errors.errors # <<>>
       THEN [validation |-> validation_errors, csv_conditions |-> Null, csv_params |-> Null,
             message |-> "CSV validation failed"]
       ELSE [validation |-> validation_errors, csv_conditions |-> Some(built.conditions),
             csv_params |-> Some(built.params), message |-> "CSV validation passed"]

\* the inputs of the manual search form (1_Advanced_Search.py:105-137); a
\* position of 0 stands for None, the number inputs having min_value=1
GeneSymbols == {None, "BRCA1", " "}

FormChromosomes == {"", "1"}

FormPositions == {0, 10, 20}

Inputs ==
    [gene_symbol : GeneSymbols, chromosome : FormChromosomes,
     start_pos : FormPositions, end_pos : FormPositions]

\* gene_symbol and gene_symbol.strip()
has_gene_symbol(input) == input.gene_symbol # None /\ strip(input.gene_symbol) # ""

\* 1_Advanced_Search.py:167-217, build_query_and_params with the frequency
\* filters at their defaults: the WHERE parts and the parameters
build_query_and_params(use_csv, csv_conditions, csv_params, input) ==
    IF use_csv /\ csv_conditions # Null /\ csv_conditions[1] # <<>>
    THEN [where |-> csv_conditions[1], params |-> csv_params[1]]
    ELSE LET gene == IF has_gene_symbol(input)
                     THEN [where |-> <<"UPPER(g.symbol) = UPPER(%s)">>,
                           params |-> <<Cell("str", strip(input.gene_symbol), 0)>>]
                     ELSE [where |-> <<>>, params |-> <<>>]
             chrom == IF input.chromosome # ""
                      THEN [where |-> <<"vl.chromosome = %s">>,
                            params |-> <<Cell("str", input.chromosome, 0)>>]
                      ELSE [where |-> <<>>, params |-> <<>>]
             range == IF input.start_pos # 0 /\ input.end_pos # 0
                      THEN [where |-> <<"vl.position BETWEEN %s AND %s">>,
                            params |-> <<Cell("int", "", input.start_pos),
                                         Cell("int", "", input.end_pos)>>]
                      ELSE IF input.start_pos # 0
                      THEN [where |-> <<"vl.position >= %s">>,
                            params |-> <<Cell("int", "", input.start_pos)>>]
                      ELSE IF input.end_pos # 0
                      THEN [where |-> <<"vl.position <= %s">>,
                            params |-> <<Cell("int", "", input.end_pos)>>]
                      ELSE [where |-> <<>>, params |-> <<>>]
         IN [where |-> gene.where \o chrom.where \o range.where,
             params |-> gene.params \o chrom.params \o range.params]

\* 1_Advanced_Search.py:219-236, the handler of the search button: the error
\* it shows (None: none) and whether it sends a query to the database
search_handler(csv_conditions, csv_params, input) ==
    LET use_csv_search == csv_conditions # Null /\ Len(csv_conditions[1]) > 0
        nothing == /\ ~has_gene_symbol(input)
                   /\ input.chromosome = ""
                   /\ input.start_pos = 0
                   /\ input.end_pos = 0
        shown == IF use_csv_search THEN None
                 ELSE IF nothing THEN "Please provide at least one search parameter"
                 ELSE IF input.start_pos # 0 /\ input.end_pos # 0
                         /\ input.start_pos > input.end_pos
                 THEN "Start position must be less than or equal to end position"
                 ELSE None
        proceed == \/ use_csv_search
                   \/ has_gene_symbol(input)
                   \/ input.chromosome # ""
                   \/ input.start_pos # 0
                   \/ input.end_pos # 0
    IN [error |-> shown, executed |-> proceed,
        query |-> IF proceed
                  THEN build_query_and_params(use_csv_search, csv_conditions, csv_params, input)
                  ELSE [where |-> <<>>, params |-> <<>>]]

\* The user uploads a file: the script runs with the button not clicked.
Upload ==
    /\ ~page.uploaded
    /\ ~page.clicked
    /\ \E file \in CsvFiles :
          LET section == upload_section(file)
          IN page' = [page EXCEPT !.uploaded = TRUE, !.file = file,
                                  !.validation = section.validation,
                                  !.csv_conditions = section.csv_conditions,
                                  !.csv_params = section.csv_params,
                                  !.message = section.message]
    /\ UNCHANGED <<committed, seq, connection, run, result, csq, fold, cli, server>>

\* The user clicks the search button: the script runs again, the upload
\* section over the file that is uploaded if any, then the handler.
Search ==
    /\ ~page.clicked
    /\ \E input \in Inputs :
          LET section == IF page.uploaded THEN upload_section(page.file)
                         ELSE [csv_conditions |-> Null, csv_params |-> Null]
              handled == search_handler(section.csv_conditions, section.csv_params, input)
          IN page' = [page EXCEPT !.clicked = TRUE, !.input = input,
                                  !.error = handled.error,
                                  !.executed = handled.executed,
                                  !.query = handled.query]
    /\ UNCHANGED <<committed, seq, connection, run, result, csq, fold, cli, server>>

NextPage == Upload \/ Search

SpecPage == Init /\ [][NextPage]_vars

(***************************************************************************)
(* Schema setup, db_utils.py:13-120, on the databases of one server.       *)
(***************************************************************************)
\* the database names create_database and create_tables are called with
DbNames == {"varmt", "test_varmt"}

\* db_utils.py:53-114, the UNIQUE constraint of each CREATE TABLE (none for
\* collections)
unique_constraints ==
    [t \in Tables |->
        CASE t = "variant_locations" ->
                {<<"chromosome", "position", "reference_allele", "genome_version">>}
          [] t = "variants" -> {<<"variant_location_id", "alternate_allele">>}
          [] t = "collections" -> {}
          [] t = "variant_frequencies" -> {<<"variant_id", "collection_id">>}
          [] t = "genes" -> {<<"symbol">>}
          [] t = "gene_locations" -> {<<"gene_id", "variant_location_id">>}]

\* a database right after CREATE DATABASE: no table, no row
NewDatabase == [tables |-> {}, unique |-> [t \in {} |-> {}], rows |-> 0]

\* C24's mutant: an existing database is kept (CREATE DATABASE IF NOT EXISTS).
create_database_if_missing(srv, dbname) ==
    IF srv.databases[dbname] # Null THEN [server |-> srv, raised |-> None]
    ELSE [server |-> [srv EXCEPT !.databases[dbname] = Some(NewDatabase)], raised |-> None]

\* db_utils.py:13-37: DROP DATABASE IF EXISTS, CREATE DATABASE on an
\* autocommit connection to 'postgres'; PostgreSQL refuses to drop a database
\* other sessions are connected to
create_database(srv, dbname) ==
    IF srv.databases[dbname] # Null /\ srv.sessions[dbname]
    THEN [server |-> srv, raised |-> "ObjectInUse"]
    ELSE [server |-> [srv EXCEPT !.databases[dbname] = Some(NewDatabase)], raised |-> None]

\* db_utils.py:38-120 as executed on the server: connect to dbname, six
\* CREATE TABLE statements, commit; a failed connect or a table that exists
\* raises and nothing is committed
create_tables_on(srv, dbname) ==
    IF srv.databases[dbname] = Null THEN [server |-> srv, raised |-> "OperationalError"]
    ELSE IF srv.databases[dbname][1].tables # {}
    THEN [server |-> srv, raised |-> "DuplicateTable"]
    ELSE [server |-> [srv EXCEPT !.databases[dbname] =
                         Some([tables |-> Tables, unique |-> unique_constraints, rows |-> 0])],
          raised |-> None]

\* create_database is called (vcf2db.py:97-98, tests/test_db_connection.py:85)
CreateDatabase ==
    /\ \E dbname \in DbNames :
          LET done == create_database(server, dbname)
              had == server.databases[dbname] # Null
                     /\ server.databases[dbname][1].rows > 0
          IN server' = [done.server EXCEPT
                           !.last = [op |-> "create_database", dbname |-> dbname,
                                     raised |-> done.raised],
                           !.replaced = IF done.raised = None /\ had
                                        THEN @ \cup {dbname} ELSE @]
    /\ UNCHANGED <<committed, seq, connection, run, result, csq, fold, page, cli>>

\* create_tables is called (vcf2db.py:100-101)
CreateTables ==
    /\ \E dbname \in DbNames :
          LET done == create_tables_on(server, dbname)
          IN server' = [done.server EXCEPT
                           !.last = [op |-> "create_tables", dbname |-> dbname,
                                     raised |-> done.raised]]
    /\ UNCHANGED <<committed, seq, connection, run, result, csq, fold, page, cli>>

\* an ingestion commits rows into a database that has the tables (vcf2db.py:85)
StoreRows ==
    /\ \E dbname \in DbNames :
          /\ server.databases[dbname] # Null
          /\ server.databases[dbname][1].tables = Tables
          /\ server.databases[dbname][1].rows < MaxStored
          /\ server' = [server EXCEPT
                           !.databases[dbname] = Some([@[1] EXCEPT !.rows = @ + 1]),
                           !.last = [op |-> "process_data", dbname |-> dbname, raised |-> None]]
    /\ UNCHANGED <<committed, seq, connection, run, result, csq, fold, page, cli>>

\* a client opens or closes its connection to a database (streamlit_db.py)
Session ==
    /\ \E dbname \in DbNames :
          /\ server.databases[dbname] # Null
          /\ server' = [server EXCEPT !.sessions[dbname] = ~@]
    /\ UNCHANGED <<committed, seq, connection, run, result, csq, fold, page, cli>>

NextSetup == CreateDatabase \/ CreateTables \/ StoreRows \/ Session

SpecSetup == Init /\ [][NextSetup]_vars

(***************************************************************************)
(* The command line, vcf2db_cli.py and main (vcf2db.py:94-114).            *)
(***************************************************************************)
\* the database the command is pointed at (--database)
Database == "varmt"

\* the parsed arguments: the three flags and --vcf (None: not given)
Args ==
    [create : BOOLEAN, tables : BOOLEAN, insert : BOOLEAN,
     vcf : {None, "cohort.vcf", "vcfs"}]

\* vcf2db_cli.py:3-28 with the command line of the invocation: argparse's
\* parser.error exits with status 2
setup_args(args) ==
    IF args.insert /\ args.vcf = None THEN [raised |-> "SystemExit", args |-> args]
    ELSE [raised |-> None, args |-> args]

\* vcf2db.py:95, args = setup_args(), of a new invocation of the command
SetupArgs ==
    /\ cli.pc \in {"idle", "exited"}
    /\ \E a \in Args :
          LET parsed == setup_args(a)
          IN cli' = [pc |-> IF parsed.raised = None THEN "create" ELSE "exited",
                     args |-> parsed.args, phases |-> <<>>, exit |-> parsed.raised]
    /\ UNCHANGED <<committed, seq, connection, run, result, csq, fold, page, server>>

\* vcf2db.py:97-98
CreatePhase ==
    /\ cli.pc = "create"
    /\ LET done == create_database(server, Database)
       IN IF ~cli.args.create
          THEN cli' = [cli EXCEPT !.pc = "tables"] /\ UNCHANGED server
          ELSE /\ server' = [done.server EXCEPT
                                !.last = [op |-> "create_database", dbname |-> Database,
                                          raised |-> done.raised],
                                !.replaced = IF /\ done.raised = None
                                                /\ server.databases[Database] # Null
                                                /\ server.databases[Database][1].rows > 0
                                             THEN @ \cup {Database} ELSE @]
               /\ cli' = IF done.raised = None
                         THEN [cli EXCEPT !.pc = "tables",
                                          !.phases = Append(@, "create_database")]
                         ELSE [cli EXCEPT !.pc = "exited", !.exit = done.raised]
    /\ UNCHANGED <<committed, seq, connection, run, result, csq, fold, page>>

\* vcf2db.py:100-101
TablesPhase ==
    /\ cli.pc = "tables"
    /\ LET done == create_tables_on(server, Database)
       IN IF ~cli.args.tables
          THEN cli' = [cli EXCEPT !.pc = "insert"] /\ UNCHANGED server
          ELSE /\ server' = [done.server EXCEPT
                                !.last = [op |-> "create_tables", dbname |-> Database,
                                          raised |-> done.raised]]
               /\ cli' = IF done.raised = None
                         THEN [cli EXCEPT !.pc = "insert",
                                          !.phases = Append(@, "create_tables")]
                         ELSE [cli EXCEPT !.pc = "exited", !.exit = done.raised]
    /\ UNCHANGED <<committed, seq, connection, run, result, csq, fold, page>>

\* vcf2db.py:103-111: process_data connects (line 19) and then returns, with
\* or without rows committed, or re-raises what a file raised (line 88)
InsertPhase ==
    /\ cli.pc = "insert"
    /\ IF ~cli.args.insert
       THEN cli' = [cli EXCEPT !.pc = "indexes"] /\ UNCHANGED server
       ELSE IF server.databases[Database] = Null
       THEN /\ cli' = [cli EXCEPT !.pc = "exited", !.exit = "OperationalError"]
            /\ UNCHANGED server
       ELSE \E outcome \in {None, "Exception"}, stored \in BOOLEAN :
               /\ stored => /\ outcome = None
                            /\ server.databases[Database][1].tables = Tables
                            /\ server.databases[Database][1].rows < MaxStored
               /\ server' = [server EXCEPT
                                !.databases[Database] =
                                    IF stored THEN Some([@[1] EXCEPT !.rows = @ + 1]) ELSE @,
                                !.last = [op |-> "process_data", dbname |-> Database,
                                          raised |-> outcome]]
               /\ cli' = IF outcome = None
                         THEN [cli EXCEPT !.pc = "indexes",
                                          !.phases = Append(@, "process_data")]
                         ELSE [cli EXCEPT !.pc = "exited", !.exit = outcome]
    /\ UNCHANGED <<committed, seq, connection, run, result, csq, fold, page>>

\* vcf2db.py:113, if args.indexes: setup_args defines no such option, the
\* Namespace has no attribute indexes and the test raises AttributeError
IndexesPhase ==
    /\ cli.pc = "indexes"
    /\ cli' = [cli EXCEPT !.pc = "exited", !.exit = "AttributeError"]
    /\ UNCHANGED <<committed, seq, connection, run, result, csq, fold, page, server>>

NextMain == SetupArgs \/ CreatePhase \/ TablesPhase \/ InsertPhase \/ IndexesPhase

SpecMain == Init /\ [][NextMain]_vars

(***************************************************************************)
(* Properties.                                                             *)
(***************************************************************************)
LocationKeys ==
    {<<chromosome, position, reference, Genome>> :
        chromosome \in Chromosomes, position \in Positions, reference \in References}

LocationRows(db, k) ==
    {r \in db.variant_locations :
        <<r.chromosome, r.position, r.reference_allele, r.genome_version>> = k}

VariantRows(db, location_id, alt_allele) ==
    {r \in db.variants :
        r.variant_location_id = location_id /\ r.alternate_allele = alt_allele}

FrequencyRows(db, v, c) ==
    {r \in db.variant_frequencies : r.variant_id = v /\ r.collection_id = c}

C2_VariantUnique ==
    /\ \A db \in {working, committed} : \A v \in db.variants :
          Cardinality(VariantRows(db, v.variant_location_id, v.alternate_allele)) = 1
    /\ \A q \in returned.live.var :
          {q[3]} = {r.id : r \in VariantRows(working, q[1], q[2])}

\* C2 witness: the upsert has just met an existing Variant row.
C2_Witness ==
    /\ last.stmt = "variant"
    /\ last.conflict
    /\ Cardinality(working.variants) = 1

\* C5 variant_frequencies holds at most one row for each (variant_id,
\* collection_id) pair, in the connection's view and in the database.
C5_OneFrequencyRowPerPair ==
    \A db \in {working, committed} : \A f \in db.variant_frequencies :
        Cardinality(FrequencyRows(db, f.variant_id, f.collection_id)) = 1

\* C5 witness: the frequency statement has just run for a pair that had a row.
C5_Witness ==
    /\ last.stmt = "frequency"
    /\ last.conflict
    /\ FrequencyRows(working, variant_id, collection_id) # {}

\* the file's processing is over: it raised, or its end was reached
FileEnded == pc \in {"raised", "for_file", "idle"}

\* the record has a count for each of its alternate alleles
WellFormed(r) == ~r.ac.is_list \/ Len(r.ac.values) >= Len(r.alts)

\* the record's count list is shorter than its list of alternate alleles
ShortCounts(r) == r.ac.is_list /\ Len(r.ac.values) < Len(r.alts)

AllWellFormed == \A j \in 1..Len(vcf) : WellFormed(vcf[j])

CountAt(r, j) == IF r.ac.is_list THEN r.ac.values[j] ELSE r.ac.values[1]

\* the (record, allele) places of the file that observe alt_allele at position
Observations(position, alt_allele) ==
    {<<j, a>> \in (1..Len(vcf)) \X (1..2) :
        /\ a <= Len(vcf[j].alts)
        /\ vcf[j].pos = position
        /\ vcf[j].alts[a] = alt_allele}

RECURSIVE SumCounts(_)
SumCounts(obs) ==
    IF obs = {} THEN 0
    ELSE LET o == CHOOSE x \in obs : TRUE
         IN CountAt(vcf[o[1]], o[2]) + SumCounts(obs \ {o})

\* C3 Multi-allelic fan-out: after a file of one record with N alternate
\* alleles, each with its count, was ingested into a store without locations,
\* variants and frequencies, the database holds N Variant rows on one
\* VariantLocation row, and the frequency row of the i-th allele in the file's
\* collection holds the i-th count (a scalar count for every allele).
C3_FanOut ==
    ( /\ FileEnded
      /\ Len(vcf) = 1
      /\ AllWellFormed
      /\ file_start.variant_locations = {}
      /\ file_start.variants = {}
      /\ file_start.variant_frequencies = {} )
    => LET r == vcf[1]
       IN /\ Cardinality(committed.variants) = Len(r.alts)
          /\ Cardinality(committed.variant_locations) = 1
          /\ \A v \in committed.variants :
                HasId(committed.variant_locations, v.variant_location_id)
          /\ \A j \in 1..Len(r.alts) :
                \E v \in committed.variants :
                   /\ v.alternate_allele = r.alts[j]
                   /\ \E f \in FrequencyRows(committed, v.id, collection_id) :
                         f.alternate_allele_count = CountAt(r, j)

\* C4 Fold correctness: after a file whose records all have their counts was
\* ingested, every (variant, collection) pair the file observes more than once
\* has one frequency row, and it holds the sum of the counts observed.
C4_FoldSum ==
    (FileEnded /\ AllWellFormed)
    => \A position \in FilePositions, alt_allele \in {"C", "G"} :
          LET obs == Observations(position, alt_allele)
          IN Cardinality(obs) >= 2
             => \E l \in committed.variant_locations :
                   /\ l.position = position
                   /\ \E v \in VariantRows(committed, l.id, alt_allele) :
                         /\ Cardinality(FrequencyRows(committed, v.id, collection_id)) = 1
                         /\ \A f \in FrequencyRows(committed, v.id, collection_id) :
                               f.alternate_allele_count = SumCounts(obs)

\* C6 Allele number is set once: after a file whose records all have their
\* counts was ingested, the file's collection has frequency rows and each
\* carries as allele_number the AN of the record that inserted it (every
\* record of a file has the same AN here); later insertions add to the
\* alternate_allele_count only.
C6_AlleleNumberSetOnce ==
    (FileEnded /\ vcf # <<>> /\ AllWellFormed)
    => /\ \E f \in committed.variant_frequencies : f.collection_id = collection_id
       /\ \A f \in committed.variant_frequencies :
             f.collection_id = collection_id
             => /\ "allele_number" \in DOMAIN f
                /\ f.allele_number = vcf[1].an

\* C7 Record-level atomicity: the database changes only by the commits
\* process_data makes between records, and it never holds a row written by a
\* record that has not completed, in progress or failed in the middle.
C7_RecordAtomicity ==
    /\ committed = last_commit
    /\ \A t \in Tables : inflight[t] \cap committed[t] = {}

\* C7 witness: a record with two alternate alleles failed after it had written
\* its location, its gene, its gene-location link and a variant.
C7_Witness ==
    /\ pc = "raised"
    /\ Len(vcf[pos].alts) = 2
    /\ inflight.variant_locations # {}
    /\ inflight.genes # {}
    /\ inflight.gene_locations # {}
    /\ inflight.variants # {}

\* C8 Malformed per-allele counts: a record whose count list is shorter than
\* its list of alternate alleles fails ingestion with a MalformedRecord error
\* and none of the rows written for it is committed.
C8_MalformedRecord ==
    (pc = "raised" /\ ShortCounts(vcf[pos]))
    => /\ error = "MalformedRecord"
       /\ \A t \in Tables : inflight[t] \cap committed[t] = {}

\* the first record of the file without a count for each allele, 0 if none
FirstMalformed ==
    IF AllWellFormed THEN 0
    ELSE CHOOSE k \in 1..Len(vcf) :
            /\ ~WellFormed(vcf[k])
            /\ \A j \in 1..(k - 1) : WellFormed(vcf[j])

\* C9 Batch commit boundary: when the processing of a file is over, the
\* records of it that are committed are all of them if none is malformed, and
\* the records 1 .. BatchSize * floor((k - 1) / BatchSize) if record k is the
\* first that fails.
C9_BatchBoundary ==
    FileEnded
    => committed_processed =
          IF FirstMalformed = 0 THEN Len(vcf)
          ELSE BatchSize * ((FirstMalformed - 1) \div BatchSize)

\* C10 Failure policy: when a record raises, process_data ends with the error
\* re-raised, the open transaction discarded and the database as the last
\* commit left it.
C10_FailurePolicy ==
    pc = "raised"
    => /\ error # None
       /\ committed = last_commit
       /\ working = committed

\* C10 witness: a file failed after an earlier file of the run was committed,
\* and the rows the failing record wrote are not in the database.
C10_Witness ==
    /\ pc = "raised"
    /\ committed.collections # {}
    /\ inflight.variants # {}
    /\ committed.variants = {}

\* a file is open: its collection is inserted and its records are being read
InFile == pc \in {"for_record", "genes", "alleles", "frequency"}

\* the Collection rows of db that the database did not hold when the file was opened
NewCollections(db) == db.collections \ file_start.collections

\* what the connection wrote since the file was opened: one Collection row, the
\* one whose id process_data keeps, and frequency rows of that collection only
OneCollectionWritten ==
    /\ \E c \in working.collections : NewCollections(working) = {c} /\ c.id = collection_id
    /\ \A f \in working.variant_frequencies \ file_start.variant_frequencies :
          f.collection_id = collection_id

\* C11 (as stated) For each file process_data opens, one new Collection row is
\* created before any record of the file is written, every frequency row
\* written for the file carries its id, and the row is there as well when the
\* file's ingestion has failed, in its first batch or in a later one.
C11_OneCollectionPerFile ==
    /\ InFile => OneCollectionWritten
    /\ (pc = "for_record" /\ pos = 0)
       => \A t \in Tables \ {"collections"} : working[t] = file_start[t]
    /\ (FileEnded /\ opened # <<>>)
       => \E c \in committed.collections :
             NewCollections(committed) = {c} /\ c.id = collection_id

\* C11 (amended) For each file process_data opens, one Collection row is
\* inserted before any record of the file is written, in the transaction of
\* the file's first batch, and every frequency row written for the file carries
\* its id; the row is in the database once the file has committed (a batch or
\* its end), and a file that fails in its first batch leaves no Collection row.
C11_OneCollectionPerCommittedFile ==
    /\ InFile => OneCollectionWritten
    /\ (pc = "for_record" /\ pos = 0)
       => \A t \in Tables \ {"collections"} : working[t] = file_start[t]
    /\ (pc = "raised" /\ committed_processed = 0) => NewCollections(committed) = {}
    /\ (opened # <<>> /\ (pc \in {"for_file", "idle"} \/ (pc = "raised" /\ committed_processed > 0)))
       => \E c \in committed.collections :
             NewCollections(committed) = {c} /\ c.id = collection_id

\* C11 witness: the second file of a run failed in its first batch; the first
\* file's collection is in the database, the second's was inserted and is not.
C11_Witness ==
    /\ pc = "raised"
    /\ Len(opened) = 2
    /\ HasId(committed.collections, opened[1].collection_id)
    /\ seq.collections >= collection_id
    /\ ~HasId(committed.collections, collection_id)

\* C12 The files of a directory are processed in ascending path order: while a
\* file is open every file the run opened before it has a smaller path, a
\* smaller collection id and its collection committed, and every file still
\* to come has a greater path.
C12_SortedFileOrder ==
    /\ \A j, k \in 1..Len(opened) :
          j < k => /\ opened[j].path < opened[k].path
                   /\ opened[j].collection_id < opened[k].collection_id
    /\ InFile =>
          /\ opened[Len(opened)].path = Head(vcf_files)
          /\ \A j \in 1..(Len(opened) - 1) :
                HasId(committed.collections, opened[j].collection_id)
          /\ \A k \in 2..Len(vcf_files) : Head(vcf_files) < vcf_files[k]

\* C12 witness: the second file of a directory is open and has written a
\* location, after the first file was committed.
C12_Witness ==
    /\ InFile
    /\ Len(opened) = 2
    /\ opened[1].path < opened[2].path
    /\ HasId(committed.collections, opened[1].collection_id)
    /\ inflight.variant_locations # {}

\* the record names a gene identifier that the reference mapping does not hold
Unmapped(r) == r.gene # None /\ r.gene \notin DOMAIN gene_mapping

\* the database holds the record's location, a variant for each of its
\* alternate alleles and a frequency row of the file's collection for each
RecordWritten(db, r) ==
    \E l \in LocationRows(db, <<r.chrom, r.pos, r.ref, Genome>>) :
        \A j \in 1..Len(r.alts) :
            \E v \in VariantRows(db, l.id, r.alts[j]) :
                FrequencyRows(db, v.id, collection_id) # {}

\* C13 Gene mapping emptiness: the lookup of an identifier absent from the
\* mapping returns no symbol, and after a file of one record that carries such
\* an identifier was ingested the database has no new Gene and GeneLocation
\* row and holds the record's location, variants and frequencies.
C13_GeneMappingEmptiness ==
    (FileEnded /\ Len(vcf) = 1 /\ AllWellFormed /\ Unmapped(vcf[1]))
    => /\ map_gene_symbols(vcf[1].gene, gene_mapping) = <<>>
       /\ committed.genes = file_start.genes
       /\ committed.gene_locations = file_start.gene_locations
       /\ RecordWritten(committed, vcf[1])

GeneRows(db, symbol) == {g \in db.genes : g.symbol = symbol}

GeneLocationRows(db, gene_id, location_id) ==
    {l \in db.gene_locations : l.gene_id = gene_id /\ l.variant_location_id = location_id}

\* C14 genes holds at most one row per symbol and gene_locations at most one
\* row per (gene_id, variant_location_id), in the connection's view and in the
\* database; the statements of a gene whose link exists change no table, and
\* every link is of a gene and a location the view holds.
C14_GeneLinksUnique ==
    /\ \A db \in {working, committed} :
          /\ \A g \in db.genes : Cardinality(GeneRows(db, g.symbol)) = 1
          /\ \A l \in db.gene_locations :
                /\ Cardinality(GeneLocationRows(db, l.gene_id, l.variant_location_id)) = 1
                /\ HasId(db.genes, l.gene_id)
                /\ HasId(db.variant_locations, l.variant_location_id)
    /\ (last.stmt = "genes" /\ last.conflict) => ~last.changed

\* C14 witness: the statements of a gene have just met the gene and the link
\* that an earlier, committed record made.
C14_Witness ==
    /\ last.stmt = "genes"
    /\ last.conflict
    /\ ~last.changed
    /\ committed.gene_locations # {}
    /\ working.gene_locations = committed.gene_locations

\* the one record of the file of invocation p
TheRecord(p) == run[p].vcf[1]

OneGoodRecord(p) == Len(run[p].vcf) = 1 /\ WellFormed(TheRecord(p))

\* C15 Two concurrent invocations on different files, each of one record at
\* the same locus: once both have ended, in whatever interleaving, both hold
\* the same VariantLocation id, the database has one location row for the
\* locus and, for every alternate allele the records share, one variant row and
\* for each invocation one frequency row of its collection with its own count.
C15_ConcurrentRunsConverge ==
    ( /\ Ended(1) /\ Ended(2)
      /\ ~run[1].after /\ ~run[2].after
      /\ run[1].path # run[2].path
      /\ OneGoodRecord(1) /\ OneGoodRecord(2)
      /\ TheRecord(1).pos = TheRecord(2).pos )
    => LET r == TheRecord(1)
       IN /\ run[1].var_location_id = run[2].var_location_id
          /\ TheRecord(1).alts = TheRecord(2).alts => run[1].variant_id = run[2].variant_id
          /\ Cardinality(LocationRows(committed, <<r.chrom, r.pos, r.ref, Genome>>)) = 1
          /\ \A j \in 1..Len(TheRecord(1).alts), k \in 1..Len(TheRecord(2).alts) :
                TheRecord(1).alts[j] = TheRecord(2).alts[k]
                => \E v \in committed.variants :
                      /\ VariantRows(committed, run[1].var_location_id, r.alts[j]) = {v}
                      /\ \E f \in committed.variant_frequencies :
                            /\ FrequencyRows(committed, v.id, run[1].collection_id) = {f}
                            /\ f.alternate_allele_count = CountAt(TheRecord(1), j)
                      /\ \E f \in committed.variant_frequencies :
                            /\ FrequencyRows(committed, v.id, run[2].collection_id) = {f}
                            /\ f.alternate_allele_count = CountAt(TheRecord(2), k)

\* C16 Replay convergence: once a file of one record has been ingested and then
\* ingested a second time, the database holds one location row for the record,
\* one variant row for each of its alleles, one gene row and one link if its
\* gene is mapped, and the sum of each variant's alternate_allele_count over
\* all collections is the record's count, not twice that.
C16_ReplayConverges ==
    ( /\ Ended(1) /\ Ended(2)
      /\ run[2].after
      /\ run[1].path = run[2].path
      /\ run[1].vcf = run[2].vcf
      /\ OneGoodRecord(1) )
    => LET r == TheRecord(1)
           symbols == IF r.gene = None THEN <<>> ELSE map_gene_symbols(r.gene, gene_mapping)
       IN \E l \in committed.variant_locations :
             /\ LocationRows(committed, <<r.chrom, r.pos, r.ref, Genome>>) = {l}
             /\ \A j \in 1..Len(r.alts) :
                   \E v \in committed.variants :
                      /\ VariantRows(committed, l.id, r.alts[j]) = {v}
                      /\ SumAlternateAlleleCount(
                            {f \in committed.variant_frequencies : f.variant_id = v.id})
                         = CountAt(r, j)
             /\ \A k \in 1..Len(symbols) :
                   \E g \in committed.genes :
                      /\ GeneRows(committed, symbols[k]) = {g}
                      /\ Cardinality(GeneLocationRows(committed, g.id, l.id)) = 1

\* C17 Frequency aggregation weighting: a query made on a database that holds
\* frequency rows returns, for every variant with frequency rows, a row whose
\* alt_allele_freq is SUM(alternate_allele_count) / SUM(allele_number) over
\* the frequency rows of the variant in every collection (to four decimals).
C17_WeightedFrequency ==
    (result.made /\ result.db.variant_frequencies # {})
    => /\ result.query.error = None
       /\ \A v \in result.db.variants :
             JoinedFrequencies(result.db, v) # {}
             => \E row \in result.query.rows :
                   /\ row.alternate_allele = v.alternate_allele
                   /\ \E l \in result.db.variant_locations :
                         l.id = v.variant_location_id /\ l.position = row.position
                   /\ row.alt_allele_freq =
                         Round4(SumAlternateAlleleCount(JoinedFrequencies(result.db, v)),
                                SumAlleleNumber(JoinedFrequencies(result.db, v)))

\* the locations of db by their identity
LocationIdentities(db) == {Key("variant_locations", l) : l \in db.variant_locations}

LocationOf(db, id) == CHOOSE l \in db.variant_locations : l.id = id

VariantOf(db, id) == CHOOSE v \in db.variants : v.id = id

\* the variants of db by their identity, (location, alternate allele)
VariantIdentities(db) ==
    {<<Key("variant_locations", LocationOf(db, v.variant_location_id)), v.alternate_allele>> :
        v \in db.variants}

\* the variants of db with the rs_id each carries
VariantsWithRsId(db) ==
    {<<Key("variant_locations", LocationOf(db, v.variant_location_id)), v.alternate_allele,
       v.rs_id>> : v \in db.variants}

\* the alternate_allele_count of each (variant, collection) of db
CountsOf(db) ==
    {<<Key("variant_locations",
           LocationOf(db, VariantOf(db, f.variant_id).variant_location_id)),
       VariantOf(db, f.variant_id).alternate_allele, f.collection_id,
       f.alternate_allele_count>> : f \in db.variant_frequencies}

FoldDone == fold.started /\ fold.pos = Len(fold.file)

\* the rs_id of the first record of the file that names the variant
FirstRsId(file, position, alt_allele) ==
    LET k == CHOOSE j \in 1..Len(file) :
                /\ file[j].pos = position
                /\ \E a \in 1..Len(file[j].alts) : file[j].alts[a] = alt_allele
                /\ \A h \in 1..(j - 1) :
                      ~(/\ file[h].pos = position
                        /\ \E a \in 1..Len(file[h].alts) : file[h].alts[a] = alt_allele)
    IN file[k].id

Separators(entry) == {p \in 1..Len(entry) : entry[p] = "|"}

\* the position of the n-th separator of an entry, 0 before the first field
\* and Len + 1 after the last
Boundary(entry, n) ==
    IF n = 0 THEN 0
    ELSE IF n > Cardinality(Separators(entry)) THEN Len(entry) + 1
    ELSE CHOOSE p \in Separators(entry) :
            Cardinality({q \in Separators(entry) : q < p}) = n - 1

\* what the entry holds for a field name of the header: Null if the header
\* lacks the name, the entry has too few fields or the field is empty
Expected(entry, csq_fields, name) ==
    IF \A k \in 1..Len(csq_fields) : csq_fields[k] # name THEN Null
    ELSE LET idx == (CHOOSE k \in 1..Len(csq_fields) : csq_fields[k] = name) - 1
             text == SubSeq(entry, Boundary(entry, idx) + 1, Boundary(entry, idx + 1) - 1)
         IN IF idx > Cardinality(Separators(entry)) \/ text = <<>> THEN Null
            ELSE Some(text)

\* the header name each key of an annotation fact is read from
FactFields ==
    {<<"Feature", "transcript_id">>, <<"HGVSc", "hgvs_c">>, <<"HGVSp", "hgvs_p">>,
     <<"Consequence", "consequence">>, <<"IMPACT", "impact">>}

HeaderLacks(name) == \A k \in 1..Len(csq.csq_fields) : csq.csq_fields[k] # name

\* C20 Annotation extractor edge cases: an empty payload gives no gene symbol,
\* no rs id and no fact; a field name the header lacks gives that field absent
\* in every fact (no symbol, no rs id for SYMBOL and Existing_variation); a
\* payload of n entries gives n facts, the j-th read from the j-th entry, with
\* an empty or out-of-range sub-field absent.
C20_ExtractorEdgeCases ==
    csq.called
    => /\ csq.csq_annotations = <<>>
          => csq.gene_symbols = {} /\ csq.rs_id = Null /\ csq.annotations = <<>>
       /\ \A nk \in FactFields :
             HeaderLacks(nk[1])
             => \A j \in 1..Len(csq.annotations) : csq.annotations[j][nk[2]] = Null
       /\ HeaderLacks("SYMBOL") => csq.gene_symbols = {}
       /\ HeaderLacks("Existing_variation") => csq.rs_id = Null
       /\ Len(csq.annotations) = Len(csq.csq_annotations)
       /\ \A j \in 1..Len(csq.csq_annotations) : \A nk \in FactFields :
             csq.annotations[j][nk[2]] = Expected(csq.csq_annotations[j], csq.csq_fields, nk[1])
       /\ csq.gene_symbols =
             {x[1] : x \in {Expected(csq.csq_annotations[j], csq.csq_fields, "SYMBOL") :
                              j \in 1..Len(csq.csq_annotations)} \ {Null}}

\* C20 witness: two entries under a header without SYMBOL and
\* Existing_variation gave two different facts, the second with its impact
\* out of range.
C20_Witness ==
    /\ csq.called
    /\ Len(csq.csq_annotations) = 2
    /\ HeaderLacks("SYMBOL")
    /\ Len(csq.annotations) = 2
    /\ csq.annotations[1].transcript_id = Some(<<"B">>)
    /\ csq.annotations[1].impact # Null
    /\ csq.annotations[2].transcript_id = Null
    /\ csq.annotations[2].impact = Null

\* C19 After a file of one record that carries an annotation payload was
\* ingested, the database holds, for each variant of the record, one
\* annotation row per entry of the payload.
C19_AnnotationsPersisted ==
    (FileEnded /\ Len(vcf) = 1 /\ AllWellFormed /\ vcf[1].csq # <<>>)
    => /\ "variant_vep_annotations" \in DOMAIN committed
       /\ \A j \in 1..Len(vcf[1].alts) :
             \E l \in LocationRows(committed, <<vcf[1].chrom, vcf[1].pos, vcf[1].ref, Genome>>) :
                \E v \in VariantRows(committed, l.id, vcf[1].alts[j]) :
                   Cardinality({a \in committed.variant_vep_annotations : a.variant_id = v.id})
                      = Len(vcf[1].csq)

\* the positions of a text where a token starts, the text being delimited by
\* the characters of seps
TokenStarts(text, seps) == {p \in 1..Len(text) : p = 1 \/ text[p - 1] \in seps}

\* the token that starts at position p
TokenAt(text, seps, p) ==
    LET stops == {q \in p..Len(text) : text[q] \in seps} \cup {Len(text) + 1}
        stop == CHOOSE q \in stops : \A h \in stops : q <= h
    IN SubSeq(text, p, stop - 1)

\* the first token of the text that starts with rs, or Null
FirstRsToken(text, seps) ==
    LET starts == {p \in TokenStarts(text, seps) :
                     p + 1 <= Len(text) /\ text[p] = "r" /\ text[p + 1] = "s"}
    IN IF starts = {} THEN Null
       ELSE Some(TokenAt(text, seps, CHOOSE p \in starts : \A q \in starts : p <= q))

\* the rs token of the j-th entry's cross-reference field, or Null
EntryRsId(j, seps) ==
    LET field == Expected(csq.csq_annotations[j], csq.csq_fields, "Existing_variation")
    IN IF field = Null THEN Null ELSE FirstRsToken(field[1], seps)

\* the first rs token found searching the entries in order, or Null
ExpectedRsId(seps) ==
    LET found == {j \in 1..Len(csq.csq_annotations) : EntryRsId(j, seps) # Null}
    IN IF found = {} THEN Null
       ELSE EntryRsId(CHOOSE j \in found : \A h \in found : j <= h, seps)

\* C21 as stated: the extracted cross-reference id is the first rs-prefixed
\* token found searching the entries in order, the cross-reference field of an
\* entry being split on semicolons and ampersands; absent if there is none.
C21_FirstRsIdSemicolonAmpersand ==
    csq.called => csq.rs_id = ExpectedRsId({";", "&"})

\* C21 amended: the extracted cross-reference id is the first rs-prefixed
\* token found searching the entries in order, the cross-reference field of an
\* entry being split on ampersands only; absent if there is none.
C21_FirstRsIdAmpersand ==
    csq.called => csq.rs_id = ExpectedRsId({"&"})

\* C21 witness: the first entry's cross-reference field has no rs token, the
\* second entry's field has one after an ampersand, and it was extracted.
C21_Witness ==
    /\ csq.called
    /\ Len(csq.csq_annotations) = 2
    /\ Expected(csq.csq_annotations[1], csq.csq_fields, "Existing_variation") # Null
    /\ EntryRsId(1, {"&"}) = Null
    /\ Expected(csq.csq_annotations[2], csq.csq_fields, "Existing_variation")
          = Some(<<"c", "&", "r", "s", "1">>)
    /\ csq.rs_id = Some(<<"r", "s", "1">>)

\* the chromosome names of the validation rules (1-22, X, Y, MT, with or
\* without the chr prefix) among the texts of the model's cells
ChromosomeNames == {"1", "17", "chrX"}

\* a cell's text is a positive integer
PositiveInteger(text) == text \in IntegerTexts /\ Value(text) > 0

\* the validation rules on the text of a row of the file; position columns
\* supplied short of the full triple count as invalid
ValidRow(r) ==
    /\ \/ r.gene_symbol # ""
       \/ (r.chromosome # "" /\ r.start_position # "" /\ r.end_position # "")
    /\ \/ (r.chromosome # "" /\ r.start_position # "" /\ r.end_position # "")
       \/ (r.chromosome = "" /\ r.start_position = "" /\ r.end_position = "")
    /\ r.gene_symbol # "" => strip(r.gene_symbol) # ""
    /\ r.chromosome # "" => r.chromosome \in ChromosomeNames
    /\ r.start_position # "" => PositiveInteger(r.start_position)
    /\ r.end_position # "" => PositiveInteger(r.end_position)
    /\ (PositiveInteger(r.start_position) /\ PositiveInteger(r.end_position))
       => Value(r.start_position) <= Value(r.end_position)

\* the validator returned an error that names the k-th row of the file
ErrorNames(k) ==
    \E e \in 1..Len(page.validation.errors) : page.validation.errors[e].row_num = k + 1

\* C22 Bulk search validation accepts a row (returns no error naming it)
\* exactly when the row has a gene symbol or the full triple and every value
\* it supplies is valid; so chromosome 23 and start above end are rejected and
\* a gene alone is accepted.
C22_RowAcceptedIffValid ==
    page.uploaded
    => \A k \in 1..Len(page.file) :
          (page.validation.raised = None /\ ~ErrorNames(k)) <=> ValidRow(page.file[k])

\* C23 Validation reports in aggregate: it examines every row and returns,
\* in row order, at least one error for each invalid row, each naming a row
\* of the file by index + 2; an invalid row never stops it, and the list is
\* empty exactly when every row is valid.
C23_ErrorsInAggregate ==
    page.uploaded
    => /\ page.validation.raised = None
       /\ \A k \in 1..Len(page.file) : ~ValidRow(page.file[k]) => ErrorNames(k)
       /\ \A e \in 1..Len(page.validation.errors) :
             /\ page.validation.errors[e].row_num \in 2..(Len(page.file) + 1)
             /\ \A f \in 1..(e - 1) :
                   page.validation.errors[f].row_num <= page.validation.errors[e].row_num
       /\ page.validation.errors = <<>> <=> \A k \in 1..Len(page.file) : ValidRow(page.file[k])

\* the manual input is invalid: no search parameter at all, or start above end
InvalidInput(input) ==
    \/ /\ ~has_gene_symbol(input)
       /\ input.chromosome = ""
       /\ input.start_pos = 0
       /\ input.end_pos = 0
    \/ input.start_pos # 0 /\ input.end_pos # 0 /\ input.start_pos > input.end_pos

\* CSV conditions are loaded
ConditionsLoaded == page.csv_conditions # Null /\ page.csv_conditions[1] # <<>>

\* C28 When the button is clicked with no CSV conditions loaded and an invalid
\* manual input, the error is shown and no query is executed; a query is
\* executed only for input that passed the validation.
C28_InvalidInputNotQueried ==
    (page.clicked /\ ~ConditionsLoaded)
    => /\ InvalidInput(page.input) => (page.error # None /\ ~page.executed)
       /\ page.executed => ~InvalidInput(page.input)

\* C24 After create_database(name) returns, the database exists and is empty,
\* whether or not one of that name existed before; after create_tables on a
\* database without tables returns, the database has the tables
\* variant_locations, variants, collections, variant_frequencies, genes and
\* gene_locations, each with the uniqueness constraint of its entity.
C24_SchemaSetup ==
    /\ (server.last.op = "create_database" /\ server.last.raised = None)
       => /\ server.databases[server.last.dbname] # Null
          /\ server.databases[server.last.dbname][1].tables = {}
          /\ server.databases[server.last.dbname][1].rows = 0
    /\ (server.last.op = "create_tables" /\ server.last.raised = None)
       => LET db == server.databases[server.last.dbname][1]
          IN /\ db.tables = {"variant_locations", "variants", "collections",
                             "variant_frequencies", "genes", "gene_locations"}
             /\ db.rows = 0
             /\ db.unique["variant_locations"]
                   = {<<"chromosome", "position", "reference_allele", "genome_version">>}
             /\ db.unique["variants"] = {<<"variant_location_id", "alternate_allele">>}
             /\ db.unique["variant_frequencies"] = {<<"variant_id", "collection_id">>}
             /\ db.unique["genes"] = {<<"symbol">>}
             /\ db.unique["gene_locations"] = {<<"gene_id", "variant_location_id">>}
             /\ db.unique["collections"] = {}

\* C24 witness: create_database replaced a database that held rows, and
\* create_tables then made the tables in the new one.
C24_Witness ==
    /\ server.last.op = "create_tables"
    /\ server.last.raised = None
    /\ server.last.dbname \in server.replaced
    /\ server.databases[server.last.dbname][1].tables = Tables

\* the phases the flags select, in the order create database, create tables,
\* insert data
SelectedPhases(args) ==
    (IF args.create THEN <<"create_database">> ELSE <<>>)
    \o (IF args.tables THEN <<"create_tables">> ELSE <<>>)
    \o (IF args.insert THEN <<"process_data">> ELSE <<>>)

\* C29 Command surface: --insert without --vcf is rejected before any phase
\* runs; otherwise, once the selected phases have completed, main has run
\* exactly them, in the order create database, create tables, insert data,
\* and returns normally.
C29_CommandSurface ==
    cli.pc = "exited"
    => /\ (cli.args.insert /\ cli.args.vcf = None)
          => (cli.exit = "SystemExit" /\ cli.phases = <<>>)
       /\ (~(cli.args.insert /\ cli.args.vcf = None) /\ cli.phases = SelectedPhases(cli.args))
          => cli.exit = None

\* a file of the run raised: the error is kept, the failing file is the last
\* one opened and still heads the list, no file after it was opened and no
\* collection id was drawn after its own
StoppedAtFailingFile ==
    /\ pc = "raised"
    /\ opened # <<>>
    /\ vcf_files # <<>>
    /\ opened[Len(opened)].path = Head(vcf_files)
    /\ \A k \in 2..Len(vcf_files) : \A j \in 1..Len(opened) : opened[j].path # vcf_files[k]
    /\ seq.collections = opened[Len(opened)].collection_id
    /\ \A c \in committed.collections : c.id < opened[Len(opened)].collection_id
                                        \/ committed_processed > 0

\* C25 Fail-fast sweep: when a file raises, process_data re-raises and stops
\* at that file; the files after it in sorted order are not opened, get no
\* Collection row and none of their records is written, and nothing more
\* happens until process_data is invoked again.
C25_FailFast ==
    /\ [](error # None => StoppedAtFailingFile)
    /\ [][error # None => runs' = runs + 1]_vars

\* C25 witness: the first file of a directory raised while a second file was
\* still to come.
C25_Witness ==
    /\ pc = "raised"
    /\ error # None
    /\ Len(opened) = 1
    /\ Len(vcf_files) = 2
    /\ Head(vcf_files) < vcf_files[2]

\* C26 Referential integrity of the committed state: every VariantFrequency
\* row references a committed Variant and a committed Collection, every
\* Variant a committed VariantLocation, every GeneLocation a committed Gene
\* and a committed VariantLocation, whatever was committed and rolled back.
C26_ReferentialIntegrity ==
    /\ \A f \in committed.variant_frequencies :
          /\ \E v \in committed.variants : v.id = f.variant_id
          /\ \E c \in committed.collections : c.id = f.collection_id
    /\ \A v \in committed.variants :
          \E l \in committed.variant_locations : l.id = v.variant_location_id
    /\ \A g \in committed.gene_locations :
          /\ \E h \in committed.genes : h.id = g.gene_id
          /\ \E l \in committed.variant_locations : l.id = g.variant_location_id

\* C26 witness: a frequency row is committed, with its variant, location and
\* collection, and a rollback has just removed rows written after the commit.
C26_Witness ==
    /\ last.stmt = "rollback"
    /\ committed.variant_frequencies # {}
    /\ \E t \in Tables : seq[t] > Cardinality(committed[t])

\* two Variant rows are the same (location, alternate allele)
SameVariant(v, w) ==
    v.variant_location_id = w.variant_location_id /\ v.alternate_allele = w.alternate_allele

\* C27 Re-ingesting a stored (location, alternate allele) never changes the
\* Variant's rs_id: no step changes the rs_id (or the id) of a Variant the
\* connection sees or the database holds, a Variant has one row and so at
\* most one rs_id, and a Variant row that is new carries the rs_id its first
\* observation supplied, absent if it supplied none.
C27_RsIdKept ==
    /\ [][/\ \A v \in working.variants : \A w \in working'.variants :
                SameVariant(v, w) => w = v
          /\ \A v \in committed.variants : \A w \in committed'.variants :
                SameVariant(v, w) => w = v]_vars
    /\ [](\A v, w \in working.variants : SameVariant(v, w) => v = w)
    /\ []((last.stmt = "variant" /\ ~last.conflict)
          => \E v \in working.variants : v.id = variant_id /\ v.rs_id = last.rs_id)

\* C27 witness: a committed Variant without rs_id was observed again with
\* an rs_id, and still has none.
C27_Witness ==
    /\ last.stmt = "variant"
    /\ last.conflict
    /\ last.rs_id = "rs1"
    /\ \E v \in committed.variants : v.id = variant_id /\ v.rs_id = None
    /\ \E v \in working.variants : v.id = variant_id /\ v.rs_id = None

\* C27 witness of the other case: a committed Variant with an rs_id was
\* observed again without one, and its rs_id is kept.
C27_WitnessKept ==
    /\ last.stmt = "variant"
    /\ last.conflict
    /\ last.rs_id = None
    /\ \E v \in committed.variants : v.id = variant_id /\ v.rs_id = "rs1"
    /\ \E v \in working.variants : v.id = variant_id /\ v.rs_id = "rs1"

====
